---- MODULE Spec2Model ----
(***************************************************************************)
(* A model of pysat's file inventory, class Files of src/pysat/_files.py.  *)
(*                                                                         *)
(* A catalog (a pandas Series of filenames indexed by datetime) is a       *)
(* sequence of entries <<date, name>>.  A datetime is a natural number of  *)
(* ticks, TicksPerDay ticks to the calendar day.  A filename is a sequence *)
(* of path tokens; the token DataPath stands for the text of               *)
(* Files.data_path (with its trailing separator).                          *)
(*                                                                         *)
(* The persisted catalog files under ~/.pysat are modelled by their rows   *)
(* of text; the data files of the instrument by their size class.          *)
(***************************************************************************)
EXTENDS Integers, Sequences, FiniteSets, TLC

\* ------------------------------------------------------------------ bounds
\* the files the data directory can hold
NumNames == 3
\* the ticks of one calendar day
TicksPerDay == 2

\* the highest version number a filename carries
MaxVersion == 2
\* the most files the versioned data directory holds
MaxRecords == 3

\* start_date / stop_date of an inventory without files (None in the code)
NoDate == -1
\* the path token that stands for the text of Files.data_path
DataPath == 0

\* A data file is named by a number; its name carries its timestamp, and two
\* files (two versions) share each timestamp.
NameIds == 1..NumNames
DateOfName(n) == (n + 1) \div 2
RelName(n) == <<n>>
FullName(n) == <<DataPath, n>>
RelNames == { RelName(n) : n \in NameIds }
Entry(n) == <<DateOfName(n), RelName(n)>>

SetMin(S) == CHOOSE x \in S : \A y \in S : x <= y
SetMax(S) == CHOOSE x \in S : \A y \in S : x >= y

IndexOf(info) == [i \in DOMAIN info |-> info[i][1]]
ValuesOf(info) == { info[i][2] : i \in DOMAIN info }
DatesOf(info) == { info[i][1] : i \in DOMAIN info }

\* the data directory: a file is absent, or there with data in it
Worlds == [RelNames -> {"absent", "data"}]

\* the catalogs another process stores
OtherCatalogs == { <<>>, <<Entry(1)>> }

\* ------------------------------------------------- the instrument (external)
\* Instrument._list_files_rtn: the files of the data directory, by full path,
\* indexed and ordered by their timestamps
RECURSIVE ListFrom(_, _)
ListFrom(sizes, n) ==
    IF n > NumNames THEN <<>>
    ELSE (IF sizes[RelName(n)] = "absent" THEN <<>>
          ELSE << <<DateOfName(n), FullName(n)>> >>) \o ListFrom(sizes, n + 1)

ListFilesRtn(sizes) == ListFrom(sizes, 1)

\* Instrument._filter_datetime_input: the datetime cut to its calendar day
FilterDatetimeInput(d) == d - (d % TicksPerDay)

\* ------------------------------------------------------------ pure helpers
\* Series.sort_index(): ascending by datetime, equal datetimes keep their order
RECURSIVE SortFrom(_, _)
SortFrom(info, ds) ==
    IF ds = {} THEN <<>>
    ELSE LET d == SetMin(ds)
         IN  SelectSeq(info, LAMBDA e : e[1] = d) \o SortFrom(info, ds \ {d})

\* no sort: the entries stay in the order given
SortNone(info) == info

SortIndex(info) == SortFrom(info, DatesOf(info))

\* files_info.iloc[np.unique(files_info.index, return_index=True)[1]]: per
\* distinct datetime, ascending, the first entry of the input carrying it
RECURSIVE UniqueFrom(_, _)
UniqueFrom(info, ds) ==
    IF ds = {} THEN <<>>
    ELSE LET d == SetMin(ds)
             first == SetMin({ i \in DOMAIN info : info[i][1] = d })
         IN  <<info[first]>> \o UniqueFrom(info, ds \ {d})

\* per distinct datetime the last entry of the input carrying it
RECURSIVE UniqueLastFrom(_, _)
UniqueLastFrom(info, ds) ==
    IF ds = {} THEN <<>>
    ELSE LET d == SetMin(ds)
             last == SetMax({ i \in DOMAIN info : info[i][1] = d })
         IN  <<info[last]>> \o UniqueLastFrom(info, ds \ {d})

UniqueLast(info) == UniqueLastFrom(info, DatesOf(info))

UniqueFirst(info) == UniqueFrom(info, DatesOf(info))

\* _filter_empty_files without the size test: keep every entry whose data
\* file exists
FilterMissingFiles(cat, sizes) ==
    SelectSeq(cat, LAMBDA e : sizes[e[2]] # "absent")

\* Files._filter_empty_files: keep the entries whose data file exists with a
\* size above zero
FilterEmptyFiles(cat, sizes) == SelectSeq(cat, LAMBDA e : sizes[e[2]] = "data")

\* x.split(split_str)[-1]: the text after the last occurrence of the data path
StripOne(full) ==
    LET at == { i \in DOMAIN full : full[i] = DataPath }
    IN  IF at = {} THEN full ELSE SubSeq(full, SetMax(at) + 1, Len(full))

RemoveDataDirPath(file_series) ==
    [i \in DOMAIN file_series |-> <<file_series[i][1], StripOne(file_series[i][2])>>]

\* a date_format of '%Y-%m-%d', which drops the time of day
FormatDay(d) == <<d \div TicksPerDay, 0>>

\* date_format '%Y-%m-%d %H:%M:%S.%f' and read_csv(parse_dates=True)
FormatDate(d) == <<d \div TicksPerDay, d % TicksPerDay>>
ParseDate(t) == t[1] * TicksPerDay + t[2]

ToCsv(cat) == [i \in DOMAIN cat |-> <<FormatDate(cat[i][1]), cat[i][2]>>]
ReadCsv(rows) == [i \in DOMAIN rows |-> <<ParseDate(rows[i][1]), rows[i][2]>>]

\* stored_files.eq(self.files).all() for two Series of one length: compared
\* entry by entry when the indexes are equal, otherwise aligned on the union
\* of the index labels (a label missing on one side compares unequal)
SeriesEqAll(a, b) ==
    IF IndexOf(a) = IndexOf(b)
    THEN \A i \in DOMAIN a : a[i][2] = b[i][2]
    ELSE \A d \in DatesOf(a) \cup DatesOf(b) :
            /\ d \in DatesOf(a)
            /\ d \in DatesOf(b)
            /\ \A i \in DOMAIN a, j \in DOMAIN b :
                  (a[i][1] = d /\ b[j][1] = d) => a[i][2] = b[j][2]

\* the mappings handed to _attach_files directly
Infos == { RemoveDataDirPath(ListFilesRtn(w)) : w \in Worlds }

\* no argument recorded
NoArg == [kind |-> "none"]
\* the mapping given to _attach_files; the filenames a directory search found
InfoArg(info) == [kind |-> "files_info", info |-> info]
FoundArg(fnames) == [kind |-> "found", fnames |-> fnames]

NoFile == [exists |-> FALSE, rows |-> <<>>]
FileOf(rows) == [exists |-> TRUE, rows |-> rows]
NoDisk == [primary |-> NoFile, previous |-> NoFile]

\* ------------------------------------------------------------------- state
VARIABLES
    disk,                \* ~/.pysat: [primary, previous], each a file of rows
    persisted,           \* the catalog last written to the primary file, as
                         \* the instance that wrote it held it
    fsize,               \* the data directory: the size class of each file
    multi_file_day,      \* attribute of the owning instrument
    write_to_disk,       \* the settings the application constructs Files with
    ignore_empty_files,
    alive,               \* a Files instance has been constructed
    files,               \* Files.files, the catalog
    start_date,
    stop_date,
    current_file_list,   \* Files._current_file_list (write_to_disk False)
    previous_file_list,  \* Files._previous_file_list (write_to_disk False)
    op,                  \* the last operation called
    outcome,             \* how it ended: "returned" or the exception raised
    result,              \* what the last operation returned (get_new,
                         \* get_index, files[key], get_file_array, _load,
                         \* from_os, __repr__; data_path after __init__)
    ncalls,              \* calls of _list_files_rtn made by the last operation
    twice,               \* the last two operations were the same call, with
                         \* no change of the data directory between them
    arg,                 \* the argument of the last call, or of the call
                         \* the application is about to make, where a
                         \* specification records it (NoArg elsewhere)
    twin                 \* what stands beside the instance.  SpecPair: a
                         \* second instance with write_to_disk and a ~/.pysat
                         \* of its own, [inst, result]; SpecRace: the instance
                         \* of a second process and the steps of _store;
                         \* SpecOrphan: the owning instrument, there or not

settings == <<multi_file_day, write_to_disk, ignore_empty_files>>
inst == <<alive, files, start_date, stop_date, current_file_list,
          previous_file_list>>
obs == <<op, outcome, result, ncalls, twice, arg>>
vars == <<disk, persisted, fsize, settings, inst, obs, twin>>

\* The fields an operation of Files reads and writes, as one record.
Self ==
    [ files |-> files, start_date |-> start_date, stop_date |-> stop_date,
      write_to_disk |-> write_to_disk,
      ignore_empty_files |-> ignore_empty_files,
      current_file_list |-> current_file_list,
      previous_file_list |-> previous_file_list,
      disk |-> disk, outcome |-> "returned", ncalls |-> 0 ]

\* The persisted slots as the instance holds them: the rows of the two files
\* with write_to_disk, the two lists in memory without.
PrimarySlot ==
    IF write_to_disk THEN ReadCsv(disk.primary.rows) ELSE current_file_list
PreviousSlot ==
    IF write_to_disk THEN ReadCsv(disk.previous.rows) ELSE previous_file_list

\* ---------------------------------------------------------------- Files
\* _load that hands out the lists in memory without a look at ~/.pysat
LoadFromMemory(s, prev_version) ==
    LET f == IF prev_version THEN s.disk.previous ELSE s.disk.primary
    IN  IF s.write_to_disk
        THEN IF f.exists /\ Len(f.rows) > 0 THEN ReadCsv(f.rows) ELSE <<>>
        ELSE IF prev_version THEN s.previous_file_list
             ELSE s.current_file_list

\* Files._load
Load(s, prev_version) ==
    LET f == IF prev_version THEN s.disk.previous ELSE s.disk.primary
    IN  IF f.exists /\ Len(f.rows) > 0
        THEN IF s.write_to_disk
             THEN ReadCsv(f.rows)
             ELSE IF prev_version THEN s.previous_file_list
                  ELSE s.current_file_list
        ELSE <<>>

\* Files._attach_files
AttachFiles(s, files_info, mfd, sizes) ==
    IF files_info # <<>>
    THEN LET unique_files == Cardinality(DatesOf(files_info)) # Len(files_info)
             kept == IF ~mfd /\ unique_files THEN UniqueFirst(files_info)
                     ELSE files_info
             sorted == SortIndex(kept)
             fl == IF s.ignore_empty_files THEN FilterEmptyFiles(sorted, sizes)
                   ELSE sorted
         IN  [s EXCEPT
                !.files = fl,
                !.start_date = IF fl # <<>> THEN FilterDatetimeInput(fl[1][1])
                               ELSE NoDate,
                !.stop_date = IF fl # <<>>
                              THEN FilterDatetimeInput(fl[Len(fl)][1])
                              ELSE NoDate]
    ELSE [s EXCEPT !.files = <<>>, !.start_date = NoDate, !.stop_date = NoDate]

\* _store with the two to_csv calls made whatever write_to_disk says
StoreToDisk(s) ==
    LET stored_files == Load(s, FALSE)
        new_flag == IF Len(stored_files) # Len(s.files) THEN TRUE
                    ELSE ~SeriesEqAll(stored_files, s.files)
    IN  IF ~new_flag THEN s
        ELSE [s EXCEPT !.disk = [previous |-> FileOf(ToCsv(stored_files)),
                                 primary |-> FileOf(ToCsv(s.files))]]

\* _store without the comparison: every call counts the catalog as new
StoreAlways(s) ==
    LET stored_files == Load(s, FALSE)
    IN  IF s.write_to_disk
        THEN [s EXCEPT !.disk = [previous |-> FileOf(ToCsv(stored_files)),
                                 primary |-> FileOf(ToCsv(s.files))]]
        ELSE [s EXCEPT !.previous_file_list = stored_files,
                       !.current_file_list = s.files]

\* Files._store
Store(s) ==
    LET stored_files == Load(s, FALSE)
        new_flag == IF Len(stored_files) # Len(s.files) THEN TRUE
                    ELSE ~SeriesEqAll(stored_files, s.files)
    IN  IF ~new_flag THEN s
        ELSE IF s.write_to_disk
             THEN [s EXCEPT !.disk = [previous |-> FileOf(ToCsv(stored_files)),
                                      primary |-> FileOf(ToCsv(s.files))]]
             ELSE [s EXCEPT !.previous_file_list = stored_files,
                            !.current_file_list = s.files]

\* Files.refresh: with a listing that is not empty, line 505 reads the name
\* `info`, which refresh never binds, and the call ends in a NameError before
\* _attach_files and _store; line 504 has by then filtered self.files
Refresh(s, lst, mfd, sizes) ==
    LET new_files == RemoveDataDirPath(lst)
        called == [s EXCEPT !.ncalls = s.ncalls + 1]
    IN  IF new_files # <<>>
        THEN [called EXCEPT
                !.files = IF s.ignore_empty_files
                          THEN FilterEmptyFiles(s.files, sizes) ELSE s.files,
                !.outcome = "NameError"]
        ELSE Store(AttachFiles(called, new_files, mfd, sizes))

\* new_file_series[-new_file_series.isin(old_file_series)]
NotIn(new_file_series, old_file_series) ==
    SelectSeq(new_file_series, LAMBDA e : e[2] \notin ValuesOf(old_file_series))

\* Files.get_new: the state after it, and what it returns
GetNewState(s, lst, mfd, sizes) == Refresh(s, lst, mfd, sizes)

GetNewValue(after) ==
    IF after.outcome # "returned" THEN <<>>
    ELSE NotIn(Load(after, FALSE), Load(after, TRUE))

\* Files.__init__ for an instrument with a platform, lines 153-203
Blank(d, wtd, ignore) ==
    [ files |-> <<>>, start_date |-> NoDate, stop_date |-> NoDate,
      write_to_disk |-> wtd, ignore_empty_files |-> ignore,
      current_file_list |-> <<>>, previous_file_list |-> <<>>,
      disk |-> d, outcome |-> "returned", ncalls |-> 0 ]

Init__(d, wtd, ignore, update_files, lst, mfd, sizes) ==
    LET s0 == Blank(d, wtd, ignore)
        info == Load(s0, FALSE)
    IN  IF info # <<>>
        THEN LET s1 == AttachFiles(s0, info, mfd, sizes)
             IN  IF update_files THEN Refresh(s1, lst, mfd, sizes) ELSE s1
        ELSE Refresh(s0, lst, mfd, sizes)

\* ----------------------------------------------------------------- actions
Adopt(r) ==
    /\ files' = r.files
    /\ start_date' = r.start_date
    /\ stop_date' = r.stop_date
    /\ current_file_list' = r.current_file_list
    /\ previous_file_list' = r.previous_file_list
    /\ disk' = r.disk
    /\ persisted' = IF r.disk.primary # disk.primary THEN r.files ELSE persisted
    /\ outcome' = r.outcome
    /\ ncalls' = r.ncalls

\* pysat.Files(inst, update_files=..., write_to_disk=..., ignore_empty_files=...)
\* An exception leaves no instance behind.
Construct ==
    \E update_files \in BOOLEAN :
        LET r == Init__(disk, write_to_disk, ignore_empty_files, update_files,
                        ListFilesRtn(fsize), multi_file_day, fsize)
        IN  /\ Adopt(IF r.outcome = "returned" THEN r
                     ELSE [Blank(r.disk, write_to_disk, ignore_empty_files)
                              EXCEPT !.outcome = r.outcome,
                                     !.ncalls = r.ncalls])
            /\ alive' = (r.outcome = "returned")
            /\ arg' = NoArg
            /\ op' = IF update_files THEN "construct_update" ELSE "construct"
            /\ result' = <<>>
            /\ twice' = FALSE
            /\ UNCHANGED <<fsize, settings, twin>>

CallRefresh ==
    /\ alive
    /\ Adopt(Refresh(Self, ListFilesRtn(fsize), multi_file_day, fsize))
    /\ arg' = NoArg
    /\ op' = "refresh"
    /\ result' = <<>>
    /\ twice' = (op = "refresh")
    /\ UNCHANGED <<fsize, settings, alive, twin>>

CallGetNew ==
    /\ alive
    /\ LET after == GetNewState(Self, ListFilesRtn(fsize), multi_file_day, fsize)
       IN  /\ Adopt(after)
           /\ result' = GetNewValue(after)
    /\ arg' = NoArg
    /\ op' = "get_new"
    /\ twice' = (op = "get_new")
    /\ UNCHANGED <<fsize, settings, alive, twin>>

\* a direct call of the hidden method _attach_files, with the listing of some
\* data directory (its data path removed)
CallAttachFiles ==
    /\ alive
    /\ \E info \in Infos : Adopt(AttachFiles(Self, info, multi_file_day, fsize))
    /\ arg' = NoArg
    /\ op' = "_attach_files"
    /\ result' = <<>>
    /\ twice' = FALSE
    /\ UNCHANGED <<fsize, settings, alive, twin>>

\* a direct call of the hidden method _store
CallStore ==
    /\ alive
    /\ Adopt(Store(Self))
    /\ arg' = NoArg
    /\ op' = "_store"
    /\ result' = <<>>
    /\ twice' = FALSE
    /\ UNCHANGED <<fsize, settings, alive, twin>>

Quiet ==
    /\ outcome' = "returned"
    /\ result' = <<>>
    /\ ncalls' = 0
    /\ twice' = FALSE

\* a file appears in or vanishes from the data directory
FilesystemChange ==
    /\ \E f \in RelNames :
          fsize' = [fsize EXCEPT ![f] = IF @ = "absent" THEN "data" ELSE "absent"]
    /\ arg' = NoArg
    /\ op' = "filesystem"
    /\ Quiet
    /\ UNCHANGED <<disk, persisted, settings, inst, twin>>

\* another pysat process, with write_to_disk True, stores the catalog it found
\* for the same instrument: _store of that process
OtherStore ==
    /\ \E cat \in OtherCatalogs :
          LET other == [Blank(disk, TRUE, FALSE) EXCEPT !.files = cat]
          IN  /\ Store(other).disk # disk
              /\ disk' = Store(other).disk
              /\ persisted' = cat
    /\ arg' = NoArg
    /\ op' = "other_process"
    /\ Quiet
    /\ UNCHANGED <<fsize, settings, inst, twin>>

NoTwin ==
    [inst |-> [Blank(NoDisk, TRUE, FALSE) EXCEPT !.outcome = "none"],
     result |-> <<>>]

Init ==
    /\ disk = NoDisk
    /\ persisted = <<>>
    /\ twin = NoTwin
    /\ fsize \in Worlds
    /\ multi_file_day = FALSE
    /\ write_to_disk \in BOOLEAN
    /\ ignore_empty_files \in BOOLEAN
    /\ alive = FALSE
    /\ files = <<>>
    /\ start_date = NoDate
    /\ stop_date = NoDate
    /\ current_file_list = <<>>
    /\ previous_file_list = <<>>
    /\ op = "none"
    /\ arg = NoArg
    /\ outcome = "returned"
    /\ result = <<>>
    /\ ncalls = 0
    /\ twice = FALSE

Next ==
    \/ Construct
    \/ CallRefresh
    \/ CallGetNew
    \/ CallAttachFiles
    \/ CallStore
    \/ FilesystemChange
    \/ OtherStore

Spec == Init /\ [][Next]_vars

\* ------------------------------------------------- the two modes side by side
\* Two instances for one instrument and one data directory, given the same
\* calls: the one of the variables above without write_to_disk, in a ~/.pysat
\* that holds a catalog file for the instrument or not; the twin with
\* write_to_disk, in a ~/.pysat that held no catalog when it was constructed.
TwinSelf == [twin.inst EXCEPT !.outcome = "returned", !.ncalls = 0]

\* a catalog file some earlier run left in ~/.pysat
LeftOnDisk == [primary |-> FileOf(ToCsv(<<Entry(1)>>)), previous |-> NoFile]

PairConstruct ==
    /\ ~alive
    /\ LET r == Init__(disk, write_to_disk, ignore_empty_files, FALSE,
                       ListFilesRtn(fsize), multi_file_day, fsize)
           t == Init__(NoDisk, TRUE, ignore_empty_files, FALSE,
                       ListFilesRtn(fsize), multi_file_day, fsize)
       IN  /\ Adopt(IF r.outcome = "returned" THEN r
                    ELSE [Blank(r.disk, write_to_disk, ignore_empty_files)
                             EXCEPT !.outcome = r.outcome,
                                    !.ncalls = r.ncalls])
           /\ alive' = (r.outcome = "returned")
           /\ twin' = [inst |-> IF t.outcome = "returned" THEN t
                                ELSE [Blank(t.disk, TRUE, ignore_empty_files)
                                         EXCEPT !.outcome = t.outcome,
                                                !.ncalls = t.ncalls],
                       result |-> <<>>]
    /\ arg' = NoArg
    /\ op' = "construct"
    /\ result' = <<>>
    /\ twice' = FALSE
    /\ UNCHANGED <<fsize, settings>>

PairRefresh ==
    /\ alive
    /\ Adopt(Refresh(Self, ListFilesRtn(fsize), multi_file_day, fsize))
    /\ twin' = [inst |-> Refresh(TwinSelf, ListFilesRtn(fsize), multi_file_day,
                                 fsize),
                result |-> <<>>]
    /\ arg' = NoArg
    /\ op' = "refresh"
    /\ result' = <<>>
    /\ twice' = (op = "refresh")
    /\ UNCHANGED <<fsize, settings, alive>>

PairGetNew ==
    /\ alive
    /\ LET after == GetNewState(Self, ListFilesRtn(fsize), multi_file_day, fsize)
           tafter == GetNewState(TwinSelf, ListFilesRtn(fsize), multi_file_day,
                                 fsize)
       IN  /\ Adopt(after)
           /\ result' = GetNewValue(after)
           /\ twin' = [inst |-> tafter, result |-> GetNewValue(tafter)]
    /\ arg' = NoArg
    /\ op' = "get_new"
    /\ twice' = (op = "get_new")
    /\ UNCHANGED <<fsize, settings, alive>>

PairAttachFiles ==
    /\ alive
    /\ \E info \in Infos :
          /\ Adopt(AttachFiles(Self, info, multi_file_day, fsize))
          /\ twin' = [inst |-> AttachFiles(TwinSelf, info, multi_file_day, fsize),
                      result |-> <<>>]
    /\ arg' = NoArg
    /\ op' = "_attach_files"
    /\ result' = <<>>
    /\ twice' = FALSE
    /\ UNCHANGED <<fsize, settings, alive>>

PairStore ==
    /\ alive
    /\ Adopt(Store(Self))
    /\ twin' = [inst |-> Store(TwinSelf), result |-> <<>>]
    /\ arg' = NoArg
    /\ op' = "_store"
    /\ result' = <<>>
    /\ twice' = FALSE
    /\ UNCHANGED <<fsize, settings, alive>>

InitPair ==
    /\ disk \in {NoDisk, LeftOnDisk}
    /\ persisted = <<>>
    /\ twin = NoTwin
    /\ fsize \in Worlds
    /\ multi_file_day = FALSE
    /\ write_to_disk = FALSE
    /\ ignore_empty_files \in BOOLEAN
    /\ alive = FALSE
    /\ files = <<>>
    /\ start_date = NoDate
    /\ stop_date = NoDate
    /\ current_file_list = <<>>
    /\ previous_file_list = <<>>
    /\ op = "none"
    /\ arg = NoArg
    /\ outcome = "returned"
    /\ result = <<>>
    /\ ncalls = 0
    /\ twice = FALSE

NextPair ==
    \/ PairConstruct
    \/ PairRefresh
    \/ PairGetNew
    \/ PairAttachFiles
    \/ PairStore
    \/ FilesystemChange

SpecPair == InitPair /\ [][NextPair]_vars

\* ------------------------------------------------ _attach_files on any input
\* The mappings a list_files routine can hand over: the entries of some of the
\* files, each once, in any order.
RECURSIVE Orderings(_)
Orderings(S) ==
    IF S = {} THEN { <<>> }
    ELSE UNION { { <<Entry(n)>> \o rest : rest \in Orderings(S \ {n}) } : n \in S }

AnyInfos == UNION { Orderings(S) : S \in SUBSET NameIds }

AttachAny ==
    /\ \E info \in AnyInfos :
          /\ Adopt(AttachFiles(Self, info, multi_file_day, fsize))
          /\ arg' = InfoArg(info)
    /\ op' = "_attach_files"
    /\ result' = <<>>
    /\ twice' = FALSE
    /\ UNCHANGED <<fsize, settings, alive, twin>>

InitAttach ==
    /\ disk = NoDisk
    /\ persisted = <<>>
    /\ twin = NoTwin
    /\ fsize \in Worlds
    /\ multi_file_day \in BOOLEAN
    /\ write_to_disk = FALSE
    /\ ignore_empty_files \in BOOLEAN
    /\ alive = TRUE
    /\ files = <<>>
    /\ start_date = NoDate
    /\ stop_date = NoDate
    /\ current_file_list = <<>>
    /\ previous_file_list = <<>>
    /\ op = "none"
    /\ arg = NoArg
    /\ outcome = "returned"
    /\ result = <<>>
    /\ ncalls = 0
    /\ twice = FALSE

NextAttach ==
    \/ AttachAny
    \/ FilesystemChange

SpecAttach == InitAttach /\ [][NextAttach]_vars

\* ------------------------------------------------------------- get_index
\* np.where(fname == self.files)[0]: the positions, from 0, of the entries
\* with that filename
WhereName(cat, fname) == { i - 1 : i \in { j \in DOMAIN cat : cat[j][2] = fname } }

FnameArg(fname) == [kind |-> "fname", fname |-> fname]

\* Files.get_index: the state after it and the value returned.  The message of
\* the ValueError quotes self.files.iloc[0], an IndexError when the catalog is
\* empty.
GetIndex(s, fname, lst, mfd, sizes) ==
    IF WhereName(s.files, fname) # {}
    THEN [after |-> s, value |-> SetMin(WhereName(s.files, fname))]
    ELSE LET r == Refresh(s, lst, mfd, sizes)
         IN  IF r.outcome # "returned" THEN [after |-> r, value |-> -1]
             ELSE IF WhereName(r.files, fname) # {}
             THEN [after |-> r, value |-> SetMin(WhereName(r.files, fname))]
             ELSE [after |-> [r EXCEPT !.outcome = IF r.files = <<>>
                                                   THEN "IndexError"
                                                   ELSE "ValueError"],
                   value |-> -1]

CallGetIndex ==
    /\ alive
    /\ \E fname \in RelNames :
          LET got == GetIndex(Self, fname, ListFilesRtn(fsize), multi_file_day,
                              fsize)
          IN  /\ Adopt(got.after)
              /\ result' = <<got.value>>
              /\ arg' = FnameArg(fname)
    /\ op' = "get_index"
    /\ twice' = FALSE
    /\ UNCHANGED <<fsize, settings, alive, twin>>

NextIndex ==
    \/ Construct
    \/ CallAttachFiles
    \/ CallStore
    \/ FilesystemChange
    \/ CallGetIndex

SpecIndex == Init /\ [][NextIndex]_vars

\* ------------------------------------------------------------ files[key]
\* The keys of Files.__getitem__: slice(start, stop) of two datetimes or of two
\* positions, one position, one datetime.  Positions count from 0; datetimes
\* and positions reach one past the last a catalog can hold.
KeyDates == 0..(DateOfName(NumNames) + 1)
KeyPositions == 0..NumNames
Keys ==
    [kind : {"date_slice"}, start : KeyDates, stop : KeyDates] \cup
    [kind : {"pos_slice"}, start : KeyPositions, stop : KeyPositions] \cup
    [kind : {"pos"}, at : KeyPositions] \cup
    [kind : {"date"}, at : KeyDates]

Raised(err) == [outcome |-> err, out |-> <<>>]
Returned(out) == [outcome |-> "returned", out |-> out]

\* Series.iloc[slice] with the stop position included, as label slicing has it
IlocInclusive(cat, key) ==
    CASE key.kind = "pos_slice" ->
            Returned(SubSeq(cat, key.start + 1,
                            IF key.stop + 1 < Len(cat) THEN key.stop + 1
                            ELSE Len(cat)))
      [] key.kind = "pos" ->
            IF key.at < Len(cat) THEN Returned(cat[key.at + 1][2])
            ELSE Raised("IndexError")
      [] OTHER -> Raised("TypeError")

\* Series.iloc[key]: by position; a slice stops before its stop position and
\* is cut to the catalog, one position past the end is an IndexError, a
\* datetime a TypeError
Iloc(cat, key) ==
    CASE key.kind = "pos_slice" ->
            Returned(SubSeq(cat, key.start + 1,
                            IF key.stop < Len(cat) THEN key.stop ELSE Len(cat)))
      [] key.kind = "pos" ->
            IF key.at < Len(cat) THEN Returned(cat[key.at + 1][2])
            ELSE Raised("IndexError")
      [] OTHER -> Raised("TypeError")

\* Series.loc[key] on the sorted datetime index: a slice takes the labels from
\* start (from the first, when start is None) to stop, both included, present
\* or not; one datetime must be present
Loc(cat, key) ==
    CASE key.kind = "date_slice" ->
            Returned(SelectSeq(cat, LAMBDA e : key.start <= e[1] /\ e[1] <= key.stop))
      [] key.kind = "date_to" ->
            Returned(SelectSeq(cat, LAMBDA e : e[1] <= key.stop))
      [] key.kind = "date" ->
            LET hit == SelectSeq(cat, LAMBDA e : e[1] = key.at)
            IN  IF hit = <<>> THEN Raised("KeyError")
                ELSE IF Len(hit) = 1 THEN Returned(hit[1][2])
                ELSE Returned(hit)
      [] OTHER -> Raised("TypeError")

\* try: self.files.iloc[key]  except TypeError: self.files.loc[key]
IlocOrLoc(cat, key) ==
    IF Iloc(cat, key).outcome = "TypeError" THEN Loc(cat, key) ELSE Iloc(cat, key)

\* Files.__getitem__; isinstance(key.start, dt.datetime) holds of the slice
\* of two datetimes only
GetItem(cat, key) ==
    IF key.kind \in {"date_slice", "date_to", "pos_slice"}
    THEN LET got == IlocOrLoc(cat, key)
             out == got.out
         IN  IF got.outcome = "IndexError"
             THEN Raised("IndexError: Date requested outside file bounds.")
             ELSE IF got.outcome # "returned" THEN got
             ELSE IF key.kind = "date_slice"
             THEN IF Len(out) > 1
                  THEN IF out[Len(out)][1] >= key.stop
                       THEN Returned(SubSeq(out, 1, Len(out) - 1))
                       ELSE Returned(out)
                  ELSE IF Len(out) = 1
                  THEN IF out[1][1] >= key.stop THEN Returned(<<>>)
                       ELSE Returned(out)
                  ELSE Returned(out)
             ELSE Returned(out)
    ELSE IlocOrLoc(cat, key)

\* inst.files[key], of a catalog that is not empty (the index of an empty
\* catalog is no datetime index)
CallGetItem ==
    /\ alive
    /\ files # <<>>
    /\ \E key \in Keys :
          /\ arg' = key
          /\ outcome' = GetItem(files, key).outcome
          /\ result' = GetItem(files, key).out
    /\ op' = "__getitem__"
    /\ ncalls' = 0
    /\ twice' = FALSE
    /\ UNCHANGED <<disk, persisted, fsize, settings, inst, twin>>

InitItem ==
    /\ disk = NoDisk
    /\ persisted = <<>>
    /\ twin = NoTwin
    /\ fsize \in { [f \in RelNames |-> "data"] }
    /\ multi_file_day \in BOOLEAN
    /\ write_to_disk = FALSE
    /\ ignore_empty_files = FALSE
    /\ alive = TRUE
    /\ files = <<>>
    /\ start_date = NoDate
    /\ stop_date = NoDate
    /\ current_file_list = <<>>
    /\ previous_file_list = <<>>
    /\ op = "none"
    /\ arg = NoArg
    /\ outcome = "returned"
    /\ result = <<>>
    /\ ncalls = 0
    /\ twice = FALSE

NextItem ==
    \/ AttachAny
    \/ CallGetItem

SpecItem == InitItem /\ [][NextItem]_vars

\* ------------------------------------------------- data files of size zero
\* the data directory when a file can also be there with nothing in it
WorldsWithEmpty == [RelNames -> {"absent", "empty", "data"}]

\* a data file is written, truncated to size zero, or removed
Rewrite ==
    /\ \E f \in RelNames, size \in {"absent", "empty", "data"} :
          /\ fsize[f] # size
          /\ fsize' = [fsize EXCEPT ![f] = size]
    /\ arg' = NoArg
    /\ op' = "filesystem"
    /\ Quiet
    /\ UNCHANGED <<disk, persisted, settings, inst, twin>>

InitEmpty ==
    /\ disk = NoDisk
    /\ persisted = <<>>
    /\ twin = NoTwin
    /\ fsize \in WorldsWithEmpty
    /\ multi_file_day = FALSE
    /\ write_to_disk \in BOOLEAN
    /\ ignore_empty_files = TRUE
    /\ alive = FALSE
    /\ files = <<>>
    /\ start_date = NoDate
    /\ stop_date = NoDate
    /\ current_file_list = <<>>
    /\ previous_file_list = <<>>
    /\ op = "none"
    /\ arg = NoArg
    /\ outcome = "returned"
    /\ result = <<>>
    /\ ncalls = 0
    /\ twice = FALSE

NextEmpty ==
    \/ Construct
    \/ CallRefresh
    \/ Rewrite

SpecEmpty == InitEmpty /\ [][NextEmpty]_vars

\* ------------------------------------------- filenames that carry a version
\* A filename of the format '{year}{month}{day}_v{version}_r{revision}_c{cycle}':
\* the path tokens <<datetime, version, revision, cycle>>.
\* The files of one datetime come in every version, revision and cycle; one
\* more file carries another datetime.
RevisionsAndCycles == {1, 2}
VersionedNames ==
    { <<1, v, r, c>> : v \in 1..MaxVersion, r \in RevisionsAndCycles,
                       c \in RevisionsAndCycles } \cup { <<2, 1, 1, 1>> }

\* the files of a directory, each once, in the order the search returns them
RECURSIVE Listings(_, _)
Listings(S, n) ==
    IF n = 0 THEN { <<>> }
    ELSE { <<>> } \cup
         UNION { { <<f>> \o rest : rest \in Listings(S \ {f}, n - 1) } : f \in S }

VersionedListings == Listings(VersionedNames, MaxRecords)

\* parse_fixed_width_filenames: the fields of each filename
ParseFixedWidthFilenames(fnames) ==
    [i \in DOMAIN fnames |->
        [date |-> fnames[i][1], version |-> fnames[i][2],
         revision |-> fnames[i][3], cycle |-> fnames[i][4], file |-> fnames[i]]]

\* a is the higher of two records of one datetime: by version, then revision,
\* then cycle
Higher(a, b) ==
    \/ a.version > b.version
    \/ a.version = b.version /\ a.revision > b.revision
    \/ a.version = b.version /\ a.revision = b.revision /\ a.cycle > b.cycle

\* process_parsed_filenames: per datetime the highest record, by datetime
RECURSIVE ProcessFrom(_, _)
ProcessFrom(stored, ds) ==
    IF ds = {} THEN <<>>
    ELSE LET d == SetMin(ds)
             at == { i \in DOMAIN stored : stored[i].date = d }
             top == CHOOSE i \in at :
                       \A j \in at \ {i} : Higher(stored[i], stored[j])
         IN  << <<d, stored[top].file>> >> \o ProcessFrom(stored, ds \ {d})

ProcessParsedFilenames(stored) ==
    ProcessFrom(stored, { stored[i].date : i \in DOMAIN stored })

\* a list_files routine that indexes every file it finds by the datetime of
\* its name, in the order found
ListByDate(fnames) == [i \in DOMAIN fnames |-> <<fnames[i][1], fnames[i]>>]

\* from_os without the call of process_parsed_filenames
FromOsUnprocessed(fnames) == ListByDate(fnames)

\* Files.from_os
FromOs(fnames) == ProcessParsedFilenames(ParseFixedWidthFilenames(fnames))

\* _attach_files with what a list_files routine made of the directory arg: the
\* output of from_os, or every file by its datetime
AttachFromOs ==
    /\ op = "none"
    /\ Adopt(AttachFiles(Self, FromOs(arg.fnames), multi_file_day, fsize))
    /\ op' = "from_os"
    /\ result' = <<>>
    /\ twice' = FALSE
    /\ UNCHANGED <<fsize, settings, alive, twin, arg>>

AttachListed ==
    /\ op = "none"
    /\ Adopt(AttachFiles(Self, ListByDate(arg.fnames), multi_file_day, fsize))
    /\ op' = "_attach_files"
    /\ result' = <<>>
    /\ twice' = FALSE
    /\ UNCHANGED <<fsize, settings, alive, twin, arg>>

InitVersions ==
    /\ disk = NoDisk
    /\ persisted = <<>>
    /\ twin = NoTwin
    /\ fsize \in { [f \in RelNames |-> "data"] }
    /\ multi_file_day \in BOOLEAN
    /\ write_to_disk = FALSE
    /\ ignore_empty_files = FALSE
    /\ alive = TRUE
    /\ files = <<>>
    /\ start_date = NoDate
    /\ stop_date = NoDate
    /\ current_file_list = <<>>
    /\ previous_file_list = <<>>
    /\ op = "none"
    /\ arg \in { FoundArg(fnames) : fnames \in VersionedListings }
    /\ outcome = "returned"
    /\ result = <<>>
    /\ ncalls = 0
    /\ twice = FALSE

NextVersions ==
    \/ AttachFromOs
    \/ AttachListed

SpecVersions == InitVersions /\ [][NextVersions]_vars

\* --------------------------------------------------------- get_file_array
\* the most filenames a sequence given to get_file_array holds
MaxIntervals == 2

\* The arguments of get_file_array: one filename (a str) or a list of filenames.
StrArg(name) == [kind |-> "str", name |-> name]
ListArg(items) == [kind |-> "list", items |-> items]
NameLists == UNION { [1..k -> RelNames] : k \in 0..MaxIntervals }
StartStopArgs == { StrArg(f) : f \in RelNames } \cup { ListArg(l) : l \in NameLists }
ArrayArg(start, stop) == [kind |-> "get_file_array", start |-> start, stop |-> stop]

\* hasattr(x, '__iter__'): a list has the attribute, and so has a str
HasIter(x) == x.kind \in {"list", "str"}

\* What iterating x yields: the items of a list; of a str its characters, each
\* a str of one character.  The filenames of an instrument carry a timestamp
\* and are longer than that, so a character is the name of no file; it is
\* written as the negative of the number of the name it comes from.
IterOf(x) ==
    IF x.kind = "list" THEN x.items
    ELSE [i \in 1..2 |-> <<-(x.name[Len(x.name)])>>]

\* zip(start, stop)
Zip(a, b) ==
    [i \in 1..(IF Len(a) < Len(b) THEN Len(a) ELSE Len(b)) |-> <<a[i], b[i]>>]

\* the slice that leaves out the file at id2
BetweenExclusive(cat, id1, id2) ==
    LET out == Iloc(cat, [kind |-> "pos_slice", start |-> id1, stop |-> id2]).out
    IN  [i \in DOMAIN out |-> out[i][2]]

\* self.files.iloc[id1:(id2 + 1)] and self.files[id1:(id2 + 1)], as a list of
\* filenames
Between(cat, id1, id2) ==
    LET out == Iloc(cat, [kind |-> "pos_slice", start |-> id1,
                          stop |-> id2 + 1]).out
    IN  [i \in DOMAIN out |-> out[i][2]]

\* the filenames between the two positions found, or the exception of the
\* second get_index
IntervalTo(i1, i2) ==
    IF i2.after.outcome # "returned" THEN [after |-> i2.after, value |-> <<>>]
    ELSE [after |-> i2.after,
          value |-> Between(i2.after.files, i1.value, i2.value)]

\* id2 = self.get_index(stp), unless the first get_index has raised
IntervalFrom(i1, stp, lst, mfd, sizes) ==
    IF i1.after.outcome # "returned" THEN [after |-> i1.after, value |-> <<>>]
    ELSE IntervalTo(i1, GetIndex(i1.after, stp, lst, mfd, sizes))

\* id1 = self.get_index(sta); id2 = self.get_index(stp), and the filenames
\* between them: an exception of get_index ends the call
Interval(s, sta, stp, lst, mfd, sizes) ==
    IntervalFrom(GetIndex(s, sta, lst, mfd, sizes), stp, lst, mfd, sizes)

\* the loop of lines 603-606 over the pairs left, files holding `got` so far;
\* `one` is the interval of the first pair
RECURSIVE ExtendFrom(_, _, _, _, _, _)
RECURSIVE ExtendWith(_, _, _, _, _, _)
ExtendWith(one, pairs, got, lst, mfd, sizes) ==
    IF one.after.outcome # "returned" THEN one
    ELSE ExtendFrom(one.after, Tail(pairs), got \o one.value, lst, mfd, sizes)

ExtendFrom(s, pairs, got, lst, mfd, sizes) ==
    IF pairs = <<>> THEN [after |-> s, value |-> got]
    ELSE ExtendWith(Interval(s, pairs[1][1], pairs[1][2], lst, mfd, sizes),
                    pairs, got, lst, mfd, sizes)

\* Files.get_file_array: the state after it and the list returned
GetFileArray(s, start, stop, lst, mfd, sizes) ==
    IF HasIter(start) /\ HasIter(stop)
    THEN ExtendFrom(s, Zip(IterOf(start), IterOf(stop)), <<>>, lst, mfd, sizes)
    ELSE IF HasIter(start) \/ HasIter(stop)
    THEN [after |-> [s EXCEPT !.outcome = "ValueError: Either both or none of the inputs need to be iterable"],
          value |-> <<>>]
    ELSE Interval(s, start.name, stop.name, lst, mfd, sizes)

\* inst.files.get_file_array(start, stop), with the arguments the application
\* has chosen
CallGetFileArray ==
    /\ alive
    /\ arg.kind = "get_file_array"
    /\ LET got == GetFileArray(Self, arg.start, arg.stop, ListFilesRtn(fsize),
                               multi_file_day, fsize)
       IN  /\ Adopt(got.after)
           /\ result' = got.value
    /\ op' = "get_file_array"
    /\ twice' = FALSE
    /\ UNCHANGED <<fsize, settings, alive, twin, arg>>

\* a direct call of _attach_files before the application asks for filenames
AttachForArray ==
    /\ alive
    /\ \E info \in Infos : Adopt(AttachFiles(Self, info, multi_file_day, fsize))
    /\ op' = "_attach_files"
    /\ result' = <<>>
    /\ twice' = FALSE
    /\ UNCHANGED <<fsize, settings, alive, twin, arg>>

\* the data directory is empty or holds every file
InitArray ==
    /\ disk = NoDisk
    /\ persisted = <<>>
    /\ twin = NoTwin
    /\ fsize \in { [f \in RelNames |-> size] : size \in {"absent", "data"} }
    /\ multi_file_day \in BOOLEAN
    /\ write_to_disk = FALSE
    /\ ignore_empty_files = FALSE
    /\ alive = TRUE
    /\ files = <<>>
    /\ start_date = NoDate
    /\ stop_date = NoDate
    /\ current_file_list = <<>>
    /\ previous_file_list = <<>>
    /\ op = "none"
    /\ arg \in { ArrayArg(a, b) : a, b \in StartStopArgs }
    /\ outcome = "returned"
    /\ result = <<>>
    /\ ncalls = 0
    /\ twice = FALSE

NextArray ==
    \/ AttachForArray
    \/ CallGetFileArray

SpecArray == InitArray /\ [][NextArray]_vars

\* ------------------------------------------- Files.__init__, configuration
\* Text is a sequence of characters; Sep is os.path.sep.
Sep == "/"
\* the most characters one identity field of the instrument holds
MaxFieldLen == 2

\* pysat.data_dir: not set (''), or a directory, with or without a separator
\* at its end
DataDirs == { <<>>, <<Sep, "d">>, <<Sep, "d", Sep>> }

\* the values of an identity field written with the letter c: '', 'c', 'cc'
FieldValues(c) == UNION { [1..k -> {c}] : k \in 0..MaxFieldLen }

\* os.path.join('{platform}', '{name}', '{tag}'), the default of line 166, and
\* two formats an instrument may give
DefaultDirectoryFormat == <<"{platform}", Sep, "{name}", Sep, "{tag}">>
DirectoryFormats ==
    { DefaultDirectoryFormat,
      <<"{platform}", Sep, "{name}", Sep, "{tag}", Sep>>,
      <<"{name}", Sep, "{inst_id}">> }

\* what the application constructs Files with, and the system-wide data_dir
Configurations ==
    [ kind : {"configuration"}, data_dir : DataDirs,
      directory_format : DirectoryFormats,
      platform : FieldValues("p"), name : FieldValues("n"),
      tag : FieldValues("t"), inst_id : FieldValues("i") ]

\* directory_format.format(name=..., platform=..., tag=..., inst_id=...)
RECURSIVE FormatWith(_, _)
FormatWith(format, cfg) ==
    IF format = <<>> THEN <<>>
    ELSE (CASE Head(format) = "{platform}" -> cfg.platform
            [] Head(format) = "{name}" -> cfg.name
            [] Head(format) = "{tag}" -> cfg.tag
            [] Head(format) = "{inst_id}" -> cfg.inst_id
            [] OTHER -> <<Head(format)>>) \o FormatWith(Tail(format), cfg)

\* os.path.join(a, b) of posixpath: b alone when it starts at the root,
\* otherwise a and b with one separator put between them unless a is empty or
\* ends with one
OsPathJoin(a, b) ==
    IF b # <<>> /\ b[1] = Sep THEN b
    ELSE IF a = <<>> \/ a[Len(a)] = Sep THEN a \o b
    ELSE a \o <<Sep>> \o b

\* lines 178-182: self.data_path; data_path[-2] of a text of one character is
\* an IndexError
DataPathOf(data_dir, sub_dir_path) ==
    LET p == OsPathJoin(data_dir, sub_dir_path)
    IN  IF Len(p) < 2 THEN Raised("IndexError")
        ELSE IF p[Len(p) - 1] = Sep THEN Returned(SubSeq(p, 1, Len(p) - 1))
        ELSE IF p[Len(p)] # Sep THEN Returned(OsPathJoin(p, <<>>))
        ELSE Returned(p)

\* __init__ without the test of data_dir
ConfigureUnchecked(cfg) == DataPathOf(cfg.data_dir, FormatWith(cfg.directory_format, cfg))

\* Files.__init__, lines 140-182: the RuntimeError without a data_dir, or
\* self.data_path
Configure(cfg) ==
    IF cfg.data_dir = <<>> THEN Raised("RuntimeError")
    ELSE DataPathOf(cfg.data_dir, FormatWith(cfg.directory_format, cfg))

\* __init__ without the test of the platform at line 194
InitFromAnyPlatform(cfg, d, wtd, ignore, update_files, lst, mfd, sizes) ==
    IF Configure(cfg).outcome # "returned"
    THEN [Blank(d, wtd, ignore) EXCEPT !.outcome = Configure(cfg).outcome]
    ELSE Init__(d, wtd, ignore, update_files, lst, mfd, sizes)

\* Files.__init__, lines 184-203, of an instrument that may have no platform
InitFrom(cfg, d, wtd, ignore, update_files, lst, mfd, sizes) ==
    IF Configure(cfg).outcome # "returned"
    THEN [Blank(d, wtd, ignore) EXCEPT !.outcome = Configure(cfg).outcome]
    ELSE IF cfg.platform # <<>>
    THEN Init__(d, wtd, ignore, update_files, lst, mfd, sizes)
    ELSE Blank(d, wtd, ignore)

\* pysat.Files(inst, directory_format=..., update_files=...) under the
\* configuration chosen; result holds self.data_path
ConstructWith ==
    /\ arg.kind = "configuration"
    /\ \E update_files \in BOOLEAN :
          LET r == InitFrom(arg, disk, write_to_disk, ignore_empty_files,
                            update_files, ListFilesRtn(fsize), multi_file_day,
                            fsize)
          IN  /\ Adopt(IF r.outcome = "returned" THEN r
                       ELSE [Blank(r.disk, write_to_disk, ignore_empty_files)
                                EXCEPT !.outcome = r.outcome,
                                       !.ncalls = r.ncalls])
              /\ alive' = (r.outcome = "returned")
              /\ op' = IF update_files THEN "construct_update" ELSE "construct"
    /\ result' = Configure(arg).out
    /\ twice' = FALSE
    /\ UNCHANGED <<fsize, settings, twin, arg>>

\* ~/.pysat holds a catalog some earlier run stored, or none; the data
\* directory is empty or holds every file
InitConfig ==
    /\ disk \in {NoDisk, LeftOnDisk}
    /\ persisted = <<>>
    /\ twin = NoTwin
    /\ fsize \in { [f \in RelNames |-> size] : size \in {"absent", "data"} }
    /\ multi_file_day = FALSE
    /\ write_to_disk \in BOOLEAN
    /\ ignore_empty_files = FALSE
    /\ alive = FALSE
    /\ files = <<>>
    /\ start_date = NoDate
    /\ stop_date = NoDate
    /\ current_file_list = <<>>
    /\ previous_file_list = <<>>
    /\ op = "none"
    /\ arg \in Configurations
    /\ outcome = "returned"
    /\ result = <<>>
    /\ ncalls = 0
    /\ twice = FALSE

NextConfig == ConstructWith

SpecConfig == InitConfig /\ [][NextConfig]_vars

\* ------------------------------------------------------------------ _load
LoadArg(prev_version) == [kind |-> "_load", prev_version |-> prev_version]

\* a direct call of the hidden method _load; result holds the Series returned
CallLoad ==
    /\ alive
    /\ \E prev_version \in BOOLEAN :
          /\ result' = Load(Self, prev_version)
          /\ arg' = LoadArg(prev_version)
    /\ op' = "_load"
    /\ outcome' = "returned"
    /\ ncalls' = 0
    /\ twice' = FALSE
    /\ UNCHANGED <<disk, persisted, fsize, settings, inst, twin>>

NextLoad ==
    \/ Construct
    \/ CallAttachFiles
    \/ CallStore
    \/ OtherStore
    \/ CallLoad

SpecLoad == Init /\ [][NextLoad]_vars

\* ------------------------------------------- two processes, one ~/.pysat
\* Two pysat processes hold a Files instance each for the same instrument, both
\* with write_to_disk: process 1 in the variables of the instance above,
\* process 2 in twin.inst.  They share the data directory and the two catalog
\* files of ~/.pysat.  _store is three steps, and the steps of the two
\* processes interleave: the load of the stored catalog (line 388), the
\* to_csv of the previous file (lines 402-405), the to_csv of the primary file
\* (lines 406-408).  twin.pc holds the step each process is at, twin.stored
\* its local stored_files, twin.best the longest catalog written to the
\* primary file so far.  Files only arrive in the data directory, so of two
\* discovery results the longer is the later.
Processes == {1, 2}
ProcessArg(p) == [kind |-> "process", p |-> p]

Proc(p) ==
    IF p = 1 THEN Self
    ELSE [twin.inst EXCEPT !.disk = disk, !.outcome = "returned", !.ncalls = 0]

\* process p is left in state r
SetProc(p, r) ==
    IF p = 1
    THEN /\ Adopt(r)
         /\ UNCHANGED alive
         /\ twin' = [twin EXCEPT
                        !.best = IF r.disk.primary # disk.primary
                                    /\ Len(r.files) > Len(@)
                                 THEN r.files ELSE @]
    ELSE /\ twin' = [twin EXCEPT
                        !.inst = r,
                        !.best = IF r.disk.primary # disk.primary
                                    /\ Len(r.files) > Len(@)
                                 THEN r.files ELSE @]
         /\ disk' = r.disk
         /\ persisted' = IF r.disk.primary # disk.primary THEN r.files
                         ELSE persisted
         /\ outcome' = r.outcome
         /\ ncalls' = r.ncalls
         /\ UNCHANGED inst

\* a file arrives in the data directory
FileArrives ==
    /\ \E f \in RelNames :
          /\ fsize[f] = "absent"
          /\ fsize' = [fsize EXCEPT ![f] = "data"]
    /\ arg' = NoArg
    /\ op' = "filesystem"
    /\ Quiet
    /\ UNCHANGED <<disk, persisted, settings, inst, twin>>

\* process p calls _attach_files with the listing of the data directory
RaceAttach(p) ==
    /\ twin.pc[p] = "idle"
    /\ SetProc(p, AttachFiles(Proc(p), RemoveDataDirPath(ListFilesRtn(fsize)),
                              multi_file_day, fsize))
    /\ arg' = ProcessArg(p)
    /\ op' = "_attach_files"
    /\ result' = <<>>
    /\ twice' = FALSE
    /\ UNCHANGED <<fsize, settings>>

\* _store of process p, lines 388-399: stored_files and new_flag
StoreLoad(p) ==
    /\ twin.pc[p] = "idle"
    /\ LET stored_files == Load(Proc(p), FALSE)
           new_flag == IF Len(stored_files) # Len(Proc(p).files) THEN TRUE
                       ELSE ~SeriesEqAll(stored_files, Proc(p).files)
       IN  twin' = [twin EXCEPT
                       !.stored[p] = stored_files,
                       !.pc[p] = IF new_flag THEN "write_previous" ELSE "idle"]
    /\ arg' = ProcessArg(p)
    /\ op' = "_store"
    /\ Quiet
    /\ UNCHANGED <<disk, persisted, fsize, settings, inst>>

\* _store of process p, lines 402-405
StoreWritePrevious(p) ==
    /\ twin.pc[p] = "write_previous"
    /\ disk' = [disk EXCEPT !.previous = FileOf(ToCsv(twin.stored[p]))]
    /\ twin' = [twin EXCEPT !.pc[p] = "write_primary"]
    /\ arg' = ProcessArg(p)
    /\ op' = "_store"
    /\ Quiet
    /\ UNCHANGED <<persisted, fsize, settings, inst>>

\* _store of process p, lines 406-408
StoreWritePrimary(p) ==
    /\ twin.pc[p] = "write_primary"
    /\ disk' = [disk EXCEPT !.primary = FileOf(ToCsv(Proc(p).files))]
    /\ persisted' = Proc(p).files
    /\ twin' = [twin EXCEPT
                   !.pc[p] = "idle",
                   !.best = IF Len(Proc(p).files) > Len(@) THEN Proc(p).files
                            ELSE @]
    /\ arg' = ProcessArg(p)
    /\ op' = "_store"
    /\ Quiet
    /\ UNCHANGED <<fsize, settings, inst>>

\* get_new() of process p
RaceGetNew(p) ==
    /\ twin.pc[p] = "idle"
    /\ LET after == GetNewState(Proc(p), ListFilesRtn(fsize), multi_file_day,
                                fsize)
       IN  /\ SetProc(p, after)
           /\ result' = GetNewValue(after)
    /\ arg' = ProcessArg(p)
    /\ op' = "get_new"
    /\ twice' = FALSE
    /\ UNCHANGED <<fsize, settings>>

\* both processes have constructed their instance over an empty data
\* directory and an empty ~/.pysat
InitRace ==
    /\ disk = NoDisk
    /\ persisted = <<>>
    /\ twin = [inst |-> Blank(NoDisk, TRUE, FALSE), result |-> <<>>,
               pc |-> <<"idle", "idle">>, stored |-> << <<>>, <<>> >>,
               best |-> <<>>]
    /\ fsize = [f \in RelNames |-> "absent"]
    /\ multi_file_day = FALSE
    /\ write_to_disk = TRUE
    /\ ignore_empty_files = FALSE
    /\ alive = TRUE
    /\ files = <<>>
    /\ start_date = NoDate
    /\ stop_date = NoDate
    /\ current_file_list = <<>>
    /\ previous_file_list = <<>>
    /\ op = "none"
    /\ arg = NoArg
    /\ outcome = "returned"
    /\ result = <<>>
    /\ ncalls = 0
    /\ twice = FALSE

NextRace ==
    \/ FileArrives
    \/ \E p \in Processes : RaceAttach(p)
    \/ \E p \in Processes : StoreLoad(p)
    \/ \E p \in Processes : StoreWritePrevious(p)
    \/ \E p \in Processes : StoreWritePrimary(p)
    \/ \E p \in Processes : RaceGetNew(p)

SpecRace == InitRace /\ [][NextRace]_vars

\* --------------------------------------- the instrument behind the weakref
\* Files holds its instrument as weakref.proxy(inst) (line 147): once the
\* instrument is destroyed every read of an attribute of self._inst raises
\* ReferenceError.  twin.context tells whether the instrument is still there.
ContextAlive == twin.context = "alive"

\* Files.__repr__: the text of the instrument, or the fallback, and the number
\* of files reported
Repr(s, context_alive) ==
    <<IF context_alive THEN "Instrument" ELSE "Instrument(weakly referenced)",
      Len(s.files)>>

\* refresh that reads no attribute of the instrument before the listing
RefreshUnowned(s, context_alive, lst, mfd, sizes) == Refresh(s, lst, mfd, sizes)

\* Files.refresh: lines 489-491 read self._inst.platform first
RefreshOwned(s, context_alive, lst, mfd, sizes) ==
    IF ~context_alive THEN [s EXCEPT !.outcome = "ReferenceError"]
    ELSE Refresh(s, lst, mfd, sizes)

\* Files._attach_files: line 349 reads self._inst.multi_file_day when
\* files_info is not empty, before anything is assigned; with an empty
\* files_info the instrument is not read
AttachFilesOwned(s, context_alive, files_info, mfd, sizes) ==
    IF files_info # <<>> /\ ~context_alive
    THEN [s EXCEPT !.outcome = "ReferenceError"]
    ELSE AttachFiles(s, files_info, mfd, sizes)

OrphanRefresh ==
    /\ alive
    /\ Adopt(RefreshOwned(Self, ContextAlive, ListFilesRtn(fsize),
                          multi_file_day, fsize))
    /\ arg' = NoArg
    /\ op' = "refresh"
    /\ result' = <<>>
    /\ twice' = FALSE
    /\ UNCHANGED <<fsize, settings, alive, twin>>

OrphanGetNew ==
    /\ alive
    /\ LET after == RefreshOwned(Self, ContextAlive, ListFilesRtn(fsize),
                                 multi_file_day, fsize)
       IN  /\ Adopt(after)
           /\ result' = GetNewValue(after)
    /\ arg' = NoArg
    /\ op' = "get_new"
    /\ twice' = FALSE
    /\ UNCHANGED <<fsize, settings, alive, twin>>

OrphanAttachFiles ==
    /\ alive
    /\ \E info \in Infos :
          /\ Adopt(AttachFilesOwned(Self, ContextAlive, info, multi_file_day,
                                    fsize))
          /\ arg' = InfoArg(info)
    /\ op' = "_attach_files"
    /\ result' = <<>>
    /\ twice' = FALSE
    /\ UNCHANGED <<fsize, settings, alive, twin>>

\* repr(inst.files); result holds the text
CallRepr ==
    /\ alive
    /\ result' = Repr(Self, ContextAlive)
    /\ arg' = NoArg
    /\ op' = "__repr__"
    /\ outcome' = "returned"
    /\ ncalls' = 0
    /\ twice' = FALSE
    /\ UNCHANGED <<disk, persisted, fsize, settings, inst, twin>>

\* the instrument is destroyed, the Files instance is still referenced
DestroyInstrument ==
    /\ ContextAlive
    /\ twin' = [twin EXCEPT !.context = "destroyed"]
    /\ arg' = NoArg
    /\ op' = "del"
    /\ Quiet
    /\ UNCHANGED <<disk, persisted, fsize, settings, inst>>

InitOrphan ==
    /\ disk = NoDisk
    /\ persisted = <<>>
    /\ twin = [inst |-> NoTwin.inst, result |-> <<>>, context |-> "alive"]
    /\ fsize \in Worlds
    /\ multi_file_day = FALSE
    /\ write_to_disk \in BOOLEAN
    /\ ignore_empty_files \in BOOLEAN
    /\ alive = TRUE
    /\ files = <<>>
    /\ start_date = NoDate
    /\ stop_date = NoDate
    /\ current_file_list = <<>>
    /\ previous_file_list = <<>>
    /\ op = "none"
    /\ arg = NoArg
    /\ outcome = "returned"
    /\ result = <<>>
    /\ ncalls = 0
    /\ twice = FALSE

NextOrphan ==
    \/ OrphanRefresh
    \/ OrphanGetNew
    \/ OrphanAttachFiles
    \/ CallStore
    \/ CallRepr
    \/ DestroyInstrument

SpecOrphan == InitOrphan /\ [][NextOrphan]_vars

\* ------------------------------------------------- from_os, called directly
\* data_path as from_os gets it: None (the default) or a directory
DataPathArgs == {"None", "data_path"}
FromOsArg(data_path, fnames) ==
    [kind |-> "from_os", data_path |-> data_path, fnames |-> fnames]

\* from_os without the test of data_path
FromOsAnyPath(data_path, fnames) ==
    [outcome |-> "returned", out |-> FromOs(fnames), searches |-> 1]

\* Files.from_os(data_path=..., format_str=...) over a directory that holds
\* fnames: the ValueError of lines 658-660, or the one search of line 674 and
\* the Series of line 684
FromOsChecked(data_path, fnames) ==
    IF data_path = "None"
    THEN [outcome |-> "ValueError", out |-> <<>>, searches |-> 0]
    ELSE [outcome |-> "returned", out |-> FromOs(fnames), searches |-> 1]

\* pysat.Files.from_os(...), a call on the class: result holds the Series
\* returned, ncalls the searches of the directory
CallFromOs ==
    /\ arg.kind = "from_os"
    /\ LET got == FromOsChecked(arg.data_path, arg.fnames)
       IN  /\ outcome' = got.outcome
           /\ result' = got.out
           /\ ncalls' = got.searches
    /\ op' = "Files.from_os"
    /\ twice' = FALSE
    /\ UNCHANGED <<disk, persisted, fsize, settings, inst, twin, arg>>

\* an instance attaches and stores the listing of its data directory
AttachAndStore ==
    /\ alive
    /\ Adopt(Store(AttachFiles(Self, RemoveDataDirPath(ListFilesRtn(fsize)),
                               multi_file_day, fsize)))
    /\ op' = "_attach_files"
    /\ result' = <<>>
    /\ twice' = FALSE
    /\ UNCHANGED <<fsize, settings, alive, twin, arg>>

InitFromOs ==
    /\ disk = NoDisk
    /\ persisted = <<>>
    /\ twin = NoTwin
    /\ fsize \in { [f \in RelNames |-> "data"] }
    /\ multi_file_day = FALSE
    /\ write_to_disk \in BOOLEAN
    /\ ignore_empty_files = FALSE
    /\ alive = TRUE
    /\ files = <<>>
    /\ start_date = NoDate
    /\ stop_date = NoDate
    /\ current_file_list = <<>>
    /\ previous_file_list = <<>>
    /\ op = "none"
    /\ arg \in { FromOsArg(data_path, fnames) :
                    data_path \in DataPathArgs, fnames \in VersionedListings }
    /\ outcome = "returned"
    /\ result = <<>>
    /\ ncalls = 0
    /\ twice = FALSE

NextFromOs ==
    \/ CallFromOs
    \/ AttachAndStore

SpecFromOs == InitFromOs /\ [][NextFromOs]_vars

\* ------------------------------- _attach_files over files of size zero
\* An instance that ignores empty files, over a data directory whose files
\* can be missing, empty or filled; the application hands _attach_files any
\* mapping.
InitAttachEmpty ==
    /\ disk = NoDisk
    /\ persisted = <<>>
    /\ twin = NoTwin
    /\ fsize \in WorldsWithEmpty
    /\ multi_file_day \in BOOLEAN
    /\ write_to_disk = FALSE
    /\ ignore_empty_files = TRUE
    /\ alive = TRUE
    /\ files = <<>>
    /\ start_date = NoDate
    /\ stop_date = NoDate
    /\ current_file_list = <<>>
    /\ previous_file_list = <<>>
    /\ op = "none"
    /\ arg = NoArg
    /\ outcome = "returned"
    /\ result = <<>>
    /\ ncalls = 0
    /\ twice = FALSE

NextAttachEmpty ==
    \/ AttachAny
    \/ Rewrite

SpecAttachEmpty == InitAttachEmpty /\ [][NextAttachEmpty]_vars

\* --------------------------------------- files[:stop], the start left out
\* slice(None, stop) and slice(start, stop) of datetimes
DateSliceKeys ==
    [kind : {"date_to"}, stop : KeyDates] \cup
    [kind : {"date_slice"}, start : KeyDates, stop : KeyDates]

\* inst.files[:stop] and inst.files[start:stop], of a catalog that is not
\* empty
CallGetItemDates ==
    /\ alive
    /\ files # <<>>
    /\ \E key \in DateSliceKeys :
          /\ arg' = key
          /\ outcome' = GetItem(files, key).outcome
          /\ result' = GetItem(files, key).out
    /\ op' = "__getitem__"
    /\ ncalls' = 0
    /\ twice' = FALSE
    /\ UNCHANGED <<disk, persisted, fsize, settings, inst, twin>>

NextDates ==
    \/ AttachAny
    \/ CallGetItemDates

SpecDates == InitItem /\ [][NextDates]_vars

\* ------------------------------------------------------ stored_file_name
\* the letters an identity field is written with, besides '_'
NumLetters == 1

IdentityChars == {"_"} \cup { <<"a", "b", "c">>[i] : i \in 1..NumLetters }

\* an identity field: '' or one character
IdentityTexts == { <<>> } \cup { <<c>> : c \in IdentityChars }

\* platform, name, tag and inst_id of an instrument
Identities ==
    [ platform : IdentityTexts, name : IdentityTexts, tag : IdentityTexts,
      inst_id : IdentityTexts ]

\* the instruments of two Files instances
TwoInstruments(a, b) == [kind |-> "two_instruments", ids |-> <<a, b>>]

\* the four fields put together with nothing between them
StoredFileNameUnseparated(id) ==
    id.platform \o id.name \o id.tag \o id.inst_id
        \o <<"_stored_file_info.txt">>

\* lines 159-162: self.stored_file_name
StoredFileName(id) ==
    id.platform \o <<"_">> \o id.name \o <<"_">> \o id.tag \o <<"_">>
        \o id.inst_id \o <<"_stored_file_info.txt">>

\* the files of ~/.pysat that _load and _store of an instance read and write:
\* stored_file_name and 'previous_' + stored_file_name
SlotFiles(id) ==
    [ primary |-> StoredFileName(id),
      previous |-> <<"previous_">> \o StoredFileName(id) ]

NoSlotFiles == [primary |-> <<>>, previous |-> <<>>]

\* pysat.Files(inst) for the i-th instrument: the names of its two slots
NameSlots(i) ==
    /\ arg.kind = "two_instruments"
    /\ twin.slots[i] = NoSlotFiles
    /\ twin' = [twin EXCEPT !.slots[i] = SlotFiles(arg.ids[i])]
    /\ result' = StoredFileName(arg.ids[i])
    /\ op' = "construct"
    /\ UNCHANGED <<disk, persisted, fsize, settings, inst, outcome, ncalls,
                   twice, arg>>

InitNames ==
    /\ disk = NoDisk
    /\ persisted = <<>>
    /\ twin = [inst |-> NoTwin.inst, result |-> <<>>,
               slots |-> <<NoSlotFiles, NoSlotFiles>>]
    /\ fsize = [f \in RelNames |-> "absent"]
    /\ multi_file_day = FALSE
    /\ write_to_disk = TRUE
    /\ ignore_empty_files = FALSE
    /\ alive = FALSE
    /\ files = <<>>
    /\ start_date = NoDate
    /\ stop_date = NoDate
    /\ current_file_list = <<>>
    /\ previous_file_list = <<>>
    /\ op = "none"
    /\ arg \in { TwoInstruments(a, b) : a, b \in Identities }
    /\ outcome = "returned"
    /\ result = <<>>
    /\ ncalls = 0
    /\ twice = FALSE

NextNames == \E i \in {1, 2} : NameSlots(i)

SpecNames == InitNames /\ [][NextNames]_vars

\* ------------------------------------ the file names of the test instruments
\* The years the file dates are taken from, FirstYear onwards.
NumYears == 2
FirstYear == 2008

\* a file date: a calendar day and the minute of that day
IsLeap(y) == (y % 4 = 0 /\ y % 100 # 0) \/ y % 400 = 0
DaysIn(y, m) ==
    IF m = 2 THEN (IF IsLeap(y) THEN 29 ELSE 28)
    ELSE IF m \in {4, 6, 9, 11} THEN 30 ELSE 31

\* file_date_range: days at midnight, as the default range has them, or at
\* 23:57
FileDates ==
    { d \in [year : FirstYear..(FirstYear + NumYears - 1), month : 1..12,
              day : 1..31, minute : {0, 1437}] :
        d.day <= DaysIn(d.year, d.month) }

\* the day after
NextDay(d) ==
    IF d.day < DaysIn(d.year, d.month) THEN [d EXCEPT !.day = d.day + 1]
    ELSE IF d.month < 12 THEN [d EXCEPT !.month = d.month + 1, !.day = 1]
    ELSE [d EXCEPT !.year = d.year + 1, !.month = 1, !.day = 1]

\* index + dt.timedelta(minutes=5)
PlusFiveMinutes(d) ==
    IF d.minute + 5 < 1440 THEN [d EXCEPT !.minute = d.minute + 5]
    ELSE [NextDay(d) EXCEPT !.minute = d.minute + 5 - 1440]

\* text is a sequence of characters
Digit(k) == <<"0", "1", "2", "3", "4", "5", "6", "7", "8", "9">>[k + 1]
TwoDigits(n) == <<Digit(n \div 10), Digit(n % 10)>>
FourDigits(n) == TwoDigits(n \div 100) \o TwoDigits(n % 100)

\* date.strftime('%Y-%m-%d')
Strftime(d) ==
    FourDigits(d.year) \o <<"-">> \o TwoDigits(d.month) \o <<"-">>
        \o TwoDigits(d.day)

\* data_path: None ('' at line 227), paths that end with the separator, with
\* and without '-' in their directories, and paths that do not end with it
ListDataPaths ==
    { <<>>, <<Sep>>, <<"a", "-", "b", Sep>>,
      <<Sep, "a", "-", "b", Sep, "c", "-", Sep>>,
      <<"a", "-", "b">>, <<Sep, "d">> }

ListFilesArg(data_path, date, mangle_file_dates) ==
    [kind |-> "list_files", data_path |-> data_path, date |-> date,
     mangle_file_dates |-> mangle_file_dates]

\* testing.list_files, for one date of file_date_range: the index entry and
\* the filename at it
ListFilesEntry(data_path, date, mangle_file_dates) ==
    LET index == IF mangle_file_dates THEN PlusFiveMinutes(date) ELSE date
    IN  <<index,
          data_path \o Strftime(index) \o <<".", "n", "o", "f", "i", "l", "e">>>>

\* os.path.split(fname)[-1]: the text after the last separator
BaseName(fname) ==
    IF \A k \in DOMAIN fname : fname[k] # Sep THEN fname
    ELSE SubSeq(fname, SetMax({ k \in DOMAIN fname : fname[k] = Sep }) + 1,
                Len(fname))

\* text.split(c)
RECURSIVE SplitOn(_, _)
SplitOn(text, c) ==
    IF \A k \in DOMAIN text : text[k] # c THEN <<text>>
    ELSE <<SubSeq(text, 1, SetMin({ k \in DOMAIN text : text[k] = c }) - 1)>>
         \o SplitOn(SubSeq(text, SetMin({ k \in DOMAIN text : text[k] = c }) + 1,
                           Len(text)), c)

\* int(text): the text must be digits
IsDigits(text) ==
    text # <<>> /\ \A k \in DOMAIN text : \E n \in 0..9 : text[k] = Digit(n)
RECURSIVE IntOf(_)
IntOf(text) ==
    IF text = <<>> THEN 0
    ELSE IntOf(SubSeq(text, 1, Len(text) - 1)) * 10
         + (CHOOSE n \in 0..9 : text[Len(text)] = Digit(n))

\* text[0:2]
FirstTwo(text) == SubSeq(text, 1, IF Len(text) < 2 THEN Len(text) ELSE 2)

\* dt.datetime(yr, month, day)
DatetimeOf(yr, month, day) ==
    IF yr \in 1..9999 /\ month \in 1..12 /\ day >= 1 /\ day <= DaysIn(yr, month)
    THEN Returned(<<yr, month, day>>)
    ELSE Raised("ValueError")

\* lines 458-463 of generate_times, given the parts of the file name
DateOfParts(parts) ==
    IF ~IsDigits(parts[1]) THEN Raised("ValueError")
    ELSE IF Len(parts) < 2 THEN Raised("IndexError")
    ELSE IF ~IsDigits(parts[2]) THEN Raised("ValueError")
    ELSE IF Len(parts) < 3 THEN Raised("IndexError")
    ELSE IF ~IsDigits(FirstTwo(parts[3])) THEN Raised("ValueError")
    ELSE DatetimeOf(IntOf(parts[1]), IntOf(parts[2]), IntOf(FirstTwo(parts[3])))

\* generate_times that splits the whole path at '-'
GenerateTimesWholePath(fname) == DateOfParts(SplitOn(fname, "-"))

\* testing.generate_times, for one file name: the date it reconstructs
GenerateTimes(fname) == DateOfParts(SplitOn(BaseName(fname), "-"))

\* list_files(data_path=..., file_date_range=..., mangle_file_dates=...)
CallListFiles ==
    /\ arg.kind = "list_files"
    /\ op = "none"
    /\ result' = ListFilesEntry(arg.data_path, arg.date, arg.mangle_file_dates)
    /\ op' = "list_files"
    /\ UNCHANGED <<disk, persisted, fsize, settings, inst, outcome, ncalls,
                   twice, arg, twin>>

\* generate_times(fnames, num) with the file name list_files gave
CallGenerateTimes ==
    /\ op = "list_files"
    /\ outcome' = GenerateTimes(result[2]).outcome
    /\ result' = <<result[1], result[2], GenerateTimes(result[2]).out>>
    /\ op' = "generate_times"
    /\ UNCHANGED <<disk, persisted, fsize, settings, inst, ncalls, twice, arg,
                   twin>>

InitTesting ==
    /\ disk = NoDisk
    /\ persisted = <<>>
    /\ twin = NoTwin
    /\ fsize = [f \in RelNames |-> "absent"]
    /\ multi_file_day = FALSE
    /\ write_to_disk = FALSE
    /\ ignore_empty_files = FALSE
    /\ alive = FALSE
    /\ files = <<>>
    /\ start_date = NoDate
    /\ stop_date = NoDate
    /\ current_file_list = <<>>
    /\ previous_file_list = <<>>
    /\ op = "none"
    /\ arg \in { ListFilesArg(p, d, m) :
                    p \in ListDataPaths, d \in FileDates, m \in BOOLEAN }
    /\ outcome = "returned"
    /\ result = <<>>
    /\ ncalls = 0
    /\ twice = FALSE

NextTesting ==
    \/ CallListFiles
    \/ CallGenerateTimes

SpecTesting == InitTesting /\ [][NextTesting]_vars

\* ------------------------------------------------------------------ claims
\* The catalog refresh() is meant to leave for the data directory as it is: the
\* listing without its data path, attached.
Discovered ==
    AttachFiles(Self, RemoveDataDirPath(ListFilesRtn(fsize)), multi_file_day,
                fsize).files

\* C1: when get_new() is called twice in a row and the data directory (so the
\* listing of the discovery callback) did not change in between, the second
\* call returns, and returns an empty result.
C1_SecondGetNewEmpty ==
    (op = "get_new" /\ twice) => (outcome = "returned" /\ result = <<>>)

\* C2: get_new() performs one refresh() and then returns exactly the entries of
\* the primary slot whose filename is not a filename of the previous slot.
C2_GetNewIsSlotDifference ==
    op = "get_new" =>
        /\ outcome = "returned"
        /\ ncalls = 1
        /\ result = SelectSeq(PrimarySlot,
                              LAMBDA e : e[2] \notin ValuesOf(PreviousSlot))

\* C5: for every listing of the discovery callback, empty or not, refresh()
\* returns, the catalog is then the listing with the data path removed, in
\* datetime order and filtered, and with write_to_disk the primary slot holds
\* that catalog.
C5_RefreshAttachesListing ==
    op = "refresh" =>
        /\ outcome = "returned"
        /\ files = Discovered
        /\ write_to_disk => PrimarySlot = files

InstanceOps ==
    {"construct", "construct_update", "refresh", "get_new", "_attach_files",
     "_store"}

\* C3: when _store() runs and the catalog differs from the catalog of the
\* primary slot, afterwards the previous slot holds what the primary slot held
\* and the primary slot holds the catalog.
C3_StoreMovesPrimaryToPrevious ==
    [][(op' = "_store" /\ files # PrimarySlot) =>
          (PreviousSlot' = PrimarySlot /\ PrimarySlot' = files)]_vars

\* C4: when _store() runs and the catalog equals the catalog of the primary
\* slot, neither slot changes.
C4_StoreLeavesEqualCatalog ==
    [][(op' = "_store" /\ files = PrimarySlot) =>
          (PrimarySlot' = PrimarySlot /\ PreviousSlot' = PreviousSlot)]_vars

\* C6: a refresh() that follows a refresh(), with no change of the data
\* directory in between, leaves the catalog, both dates and both slots as the
\* first call left them.
C6_RefreshIdempotent ==
    [][(op = "refresh" /\ op' = "refresh") =>
          UNCHANGED <<files, start_date, stop_date, disk, current_file_list,
                      previous_file_list>>]_vars

\* the second of two refresh() calls has returned, and the first had moved a
\* stored catalog to the previous slot
C6_Witness ==
    /\ op = "refresh" /\ twice /\ outcome = "returned"
    /\ PreviousSlot # <<>> /\ PrimarySlot = <<>>

\* C7 as stated: once a catalog that is not empty has been persisted with
\* write_to_disk, a fresh instance (update_files False, any other settings)
\* holds that catalog and has not called the discovery callback.
C7_FreshInstanceReloads ==
    (op = "construct" /\ persisted # <<>>) =>
        (alive /\ files = persisted /\ ncalls = 0)

\* C7 amended: the same, for a fresh instance that itself has write_to_disk
\* and that either keeps empty files or finds every file of the catalog on
\* disk with data in it.
C7_FreshDiskInstanceReloads ==
    ( /\ op = "construct" /\ persisted # <<>>
      /\ write_to_disk
      /\ ignore_empty_files =>
            \A i \in DOMAIN persisted : fsize[persisted[i][2]] = "data" )
    => (alive /\ files = persisted /\ ncalls = 0)

\* a fresh instance holds a stored catalog of two files, one of them stamped
\* off midnight, some of whose files are gone from the data directory
C7_Witness ==
    /\ op = "construct" /\ write_to_disk /\ alive /\ ncalls = 0
    /\ Len(persisted) = 2 /\ files = persisted
    /\ persisted[1][1] % TicksPerDay # 0
    /\ \E i \in DOMAIN files : fsize[files[i][2]] = "absent"

\* C8: construction calls the discovery callback once when no stored catalog
\* is found or update_files is set, and not at all when a stored catalog is
\* found and update_files is not set; when the refresh runs because nothing
\* was stored, what it finds is in the primary slot when construction ends.
C8_ConstructionDiscovers ==
    [][op' \in {"construct", "construct_update"} =>
          LET found == write_to_disk /\ disk.primary.rows # <<>>
          IN  /\ ncalls' = IF found /\ op' = "construct" THEN 0 ELSE 1
              /\ ~found => /\ outcome' = "returned"
                           /\ PrimarySlot' = Discovered]_vars

\* C9: with write_to_disk False no operation of the instance creates or
\* changes a file of ~/.pysat.
C9_MemoryModeLeavesDisk ==
    [][(~write_to_disk /\ op' \in InstanceOps) => disk' = disk]_vars

\* an instance without write_to_disk has stored a catalog, in its memory, and
\* ~/.pysat holds no catalog file
C9_Witness ==
    /\ ~write_to_disk /\ op = "_store"
    /\ current_file_list # <<>> /\ current_file_list = files
    /\ ~disk.primary.exists /\ ~disk.previous.exists

C11_StrictlyAscending ==
    op = "_attach_files" =>
        \A i \in 1..(Len(files) - 1) : files[i][1] < files[i + 1][1]

\* C11 amended: each datetime of the catalog is at most the next, and strictly
\* below it when multi_file_day is not set.
C11_Ascending ==
    op = "_attach_files" =>
        \A i \in 1..(Len(files) - 1) :
            /\ files[i][1] <= files[i + 1][1]
            /\ ~multi_file_day => files[i][1] < files[i + 1][1]

\* _attach_files was given three entries out of datetime order, two of them
\* with one datetime, and kept them all
C11_Witness ==
    /\ op = "_attach_files" /\ multi_file_day
    /\ Len(arg.info) = 3 /\ Len(files) = 3
    /\ arg.info[1][1] > arg.info[2][1]
    /\ files[1][1] = files[2][1]

\* the entries of the catalog that carry datetime d
AtDate(cat, d) == { cat[i] : i \in { j \in DOMAIN cat : cat[j][1] = d } }
\* the first entry of the input that carries datetime d
FirstSeen(info, d) == info[SetMin({ i \in DOMAIN info : info[i][1] = d })]
HasDuplicates(info) == Cardinality(DatesOf(info)) # Len(info)
\* the entry passes the filter of ignore_empty_files
Passes(e) == ignore_empty_files => fsize[e[2]] = "data"

\* C12 as stated: given duplicated datetimes, _attach_files returns; without
\* multi_file_day the catalog holds one entry per distinct datetime of the
\* input, the first seen; with multi_file_day it holds every entry.
C12_KeepsFirstSeen ==
    (op = "_attach_files" /\ HasDuplicates(arg.info)) =>
        /\ outcome = "returned"
        /\ IF multi_file_day
           THEN /\ Len(files) = Len(arg.info)
                /\ \A d \in DatesOf(arg.info) : AtDate(files, d) = AtDate(arg.info, d)
           ELSE /\ Len(files) = Cardinality(DatesOf(arg.info))
                /\ \A d \in DatesOf(arg.info) :
                      AtDate(files, d) = { FirstSeen(arg.info, d) }

\* C12 amended: the same of the entries that pass the filter of
\* ignore_empty_files, which runs after the duplicates are dropped: a first
\* seen entry whose file is missing or empty leaves its datetime without entry.
C12_KeepsFirstSeenThenFilters ==
    (op = "_attach_files" /\ HasDuplicates(arg.info)) =>
        /\ outcome = "returned"
        /\ IF multi_file_day
           THEN /\ Len(files) = Cardinality({ i \in DOMAIN arg.info : Passes(arg.info[i]) })
                /\ \A d \in DatesOf(arg.info) :
                      AtDate(files, d) = { e \in AtDate(arg.info, d) : Passes(e) }
           ELSE /\ Len(files) =
                      Cardinality({ d \in DatesOf(arg.info) : Passes(FirstSeen(arg.info, d)) })
                /\ \A d \in DatesOf(arg.info) :
                      AtDate(files, d) =
                          IF Passes(FirstSeen(arg.info, d)) THEN { FirstSeen(arg.info, d) }
                          ELSE {}

\* _attach_files without multi_file_day was given two entries of one datetime,
\* the later file of the two first, and kept that one
C12_Witness ==
    /\ op = "_attach_files" /\ ~multi_file_day
    /\ Len(arg.info) = 3 /\ arg.info[1][1] = arg.info[3][1] /\ arg.info[1][2] = RelName(2)
    /\ Len(files) = 2 /\ files[1] = arg.info[1]

\* the files of the directory that carry datetime d
NamesAt(fnames, d) == { fnames[i] : i \in { j \in DOMAIN fnames : fnames[j][1] = d } }
\* f carries the highest version of the files; of those with that version, the
\* highest revision; of those with that revision too, the highest cycle
Maximal(f, fs) ==
    \A g \in fs \ {f} :
        \/ f[2] > g[2]
        \/ f[2] = g[2] /\ f[3] > g[3]
        \/ f[2] = g[2] /\ f[3] = g[3] /\ f[4] > g[4]
RetainsMaximal ==
    \A d \in { arg.fnames[i][1] : i \in DOMAIN arg.fnames } :
        \E f \in NamesAt(arg.fnames, d) :
            /\ Maximal(f, NamesAt(arg.fnames, d))
            /\ AtDate(files, d) = { <<d, f>> }

C14_DatesMatchCatalog ==
    alive =>
        IF files = <<>>
        THEN start_date = NoDate /\ stop_date = NoDate
        ELSE /\ start_date = FilterDatetimeInput(files[1][1])
             /\ stop_date = FilterDatetimeInput(files[Len(files)][1])

\* C15: a call of refresh() or get_new() changes the catalog and the two dates
\* only through _attach_files: it leaves the three as they were, or as
\* _attach_files makes them for the listing of the call.
C15_OnlyAttachChangesCatalog ==
    [][op' \in {"refresh", "get_new"} =>
          LET a == AttachFiles(Self, RemoveDataDirPath(ListFilesRtn(fsize)),
                               multi_file_day, fsize)
          IN  \/ UNCHANGED <<files, start_date, stop_date>>
              \/ /\ files' = a.files
                 /\ start_date' = a.start_date
                 /\ stop_date' = a.stop_date]_vars

\* C16: with ignore_empty_files, when the listing (of distinct datetimes) holds
\* exactly one file of size zero, refresh() returns and the catalog is the
\* listing, its data path removed, without that one entry.
C16_RefreshDropsEmptyFile ==
    LET listed == RemoveDataDirPath(ListFilesRtn(fsize))
    IN  ( /\ op = "refresh" /\ ignore_empty_files
          /\ ~HasDuplicates(listed)
          /\ Cardinality({ i \in DOMAIN listed : fsize[listed[i][2]] = "empty" }) = 1 )
        => /\ outcome = "returned"
           /\ files = SelectSeq(listed, LAMBDA e : fsize[e[2]] # "empty")
           /\ Len(files) = Len(listed) - 1

\* C17: files[start:stop] of two datetimes start <= stop returns exactly the
\* entries of the catalog with start <= datetime < stop, also when several
\* entries carry the datetime stop (multi_file_day).
C17_DatetimeSliceExcludesStop ==
    (op = "__getitem__" /\ arg.kind = "date_slice" /\ arg.start <= arg.stop) =>
        /\ outcome = "returned"
        /\ result = SelectSeq(files, LAMBDA e : arg.start <= e[1] /\ e[1] < arg.stop)

\* C18 as stated: files[i:j] of two positions of the catalog, i <= j, is not
\* filtered by datetime and returns the entries from position i to position j,
\* the one at j included.
C18_PositionSliceIncludesStop ==
    ( /\ op = "__getitem__" /\ arg.kind = "pos_slice"
      /\ arg.start <= arg.stop /\ arg.stop < Len(files) ) =>
        /\ outcome = "returned"
        /\ result = SubSeq(files, arg.start + 1, arg.stop + 1)

\* C18 amended: it returns the entries from position i up to, not including,
\* position j, whatever their datetimes.
C18_PositionSliceExcludesStop ==
    ( /\ op = "__getitem__" /\ arg.kind = "pos_slice"
      /\ arg.start <= arg.stop /\ arg.stop < Len(files) ) =>
        /\ outcome = "returned"
        /\ result = SubSeq(files, arg.start + 1, arg.stop)

\* files[0:2] of a catalog of three entries has returned the first two
C18_Witness ==
    /\ op = "__getitem__" /\ arg.kind = "pos_slice"
    /\ arg.start = 0 /\ arg.stop = 2 /\ Len(files) = 3
    /\ result = <<files[1], files[2]>>

\* the key asks for a position or a datetime the catalog does not reach
OutsideBounds(cat, key) ==
    CASE key.kind = "pos" -> key.at >= Len(cat)
      [] key.kind = "pos_slice" -> key.start >= Len(cat) \/ key.stop > Len(cat)
      [] key.kind = "date" -> key.at < cat[1][1] \/ key.at > cat[Len(cat)][1]
      [] key.kind = "date_slice" ->
            \/ key.start < cat[1][1] \/ key.start > cat[Len(cat)][1]
            \/ key.stop < cat[1][1] \/ key.stop > cat[Len(cat)][1]

\* C19: files[key] with a position, a datetime or a range outside the bounds
\* of the catalog raises the IndexError that says the request is outside the
\* file bounds.
C19_OutsideBoundsRaises ==
    (op = "__getitem__" /\ OutsideBounds(files, arg)) =>
        outcome = "IndexError: Date requested outside file bounds."

\* C20: get_index(fname) of a filename of the catalog returns its position,
\* calls no discovery and leaves catalog, dates and slots alone; of another
\* filename it performs one refresh() and, the file being one the refresh
\* lists, returns the position of the file in the refreshed catalog.
C20_GetIndexRefreshesOnce ==
    [][op' = "get_index" =>
          LET fname == arg'.fname
          IN  IF fname \in ValuesOf(files)
              THEN /\ outcome' = "returned"
                   /\ files[result'[1] + 1][2] = fname
                   /\ ncalls' = 0
                   /\ UNCHANGED <<files, start_date, stop_date, disk,
                                  current_file_list, previous_file_list>>
              ELSE /\ ncalls' = 1
                   /\ fname \in ValuesOf(Discovered) =>
                         /\ outcome' = "returned"
                         /\ files'[result'[1] + 1][2] = fname]_vars

\* C21: get_index(fname) of a filename that is not in the catalog after the
\* retry refresh fails with the ValueError that names fname, whatever
\* the catalog holds, the empty catalog included.
C21_NotFoundRaisesValueError ==
    (op = "get_index" /\ arg.fname \notin ValuesOf(files)) =>
        outcome = "ValueError"

\* the position, from 0, of the first entry of the catalog with the filename
PositionOf(cat, fname) == SetMin(WhereName(cat, fname))

\* the filenames of the catalog from position i to position j, both included
RangeNames(cat, i, j) ==
    [k \in 1..(IF j >= i THEN j - i + 1 ELSE 0) |-> cat[i + k][2]]

\* C22: get_file_array(start, stop) of two filenames (two str) that the catalog
\* holds at positions i <= j returns the filenames of the catalog from
\* position i to position j, both included, in the order of the catalog.
C22_ScalarsReturnInclusiveRange ==
    [][( /\ op' = "get_file_array"
         /\ arg.start.kind = "str" /\ arg.stop.kind = "str"
         /\ arg.start.name \in ValuesOf(files)
         /\ arg.stop.name \in ValuesOf(files)
         /\ PositionOf(files, arg.start.name) <= PositionOf(files, arg.stop.name) )
       => /\ outcome' = "returned"
          /\ result' = RangeNames(files, PositionOf(files, arg.start.name),
                                  PositionOf(files, arg.stop.name))]_vars

\* the ranges of the pairs (starts[k], stops[k]), one after the other
RECURSIVE ConcatRanges(_, _, _)
ConcatRanges(cat, starts, stops) ==
    IF starts = <<>> THEN <<>>
    ELSE RangeNames(cat, PositionOf(cat, Head(starts)),
                    PositionOf(cat, Head(stops)))
         \o ConcatRanges(cat, Tail(starts), Tail(stops))

\* C23: get_file_array of two sequences of one length, of filenames of the
\* catalog, takes them as pairs (start_k, stop_k) and returns, in the order of
\* the pairs, the filenames from start_k to stop_k, both included, one range
\* after the other; a filename in two ranges is returned twice.  The catalog
\* stays as it is and no discovery is called.
C23_SequencesConcatenateRanges ==
    [][( /\ op' = "get_file_array"
         /\ arg.start.kind = "list" /\ arg.stop.kind = "list"
         /\ Len(arg.start.items) = Len(arg.stop.items)
         /\ \A k \in DOMAIN arg.start.items :
               /\ arg.start.items[k] \in ValuesOf(files)
               /\ arg.stop.items[k] \in ValuesOf(files) )
       => /\ outcome' = "returned"
          /\ result' = ConcatRanges(files, arg.start.items, arg.stop.items)
          /\ ncalls' = 0
          /\ files' = files]_vars

\* two ranges that overlap have been returned from a catalog of three files:
\* five filenames, the first of the catalog twice
C23_Witness ==
    /\ op = "get_file_array" /\ outcome = "returned"
    /\ arg.start.kind = "list" /\ arg.stop.kind = "list"
    /\ Len(arg.start.items) = 2 /\ Len(arg.stop.items) = 2
    /\ Len(files) = 3
    /\ result = <<files[1][2], files[2][2], files[3][2], files[1][2], files[2][2]>>

\* C24: get_file_array with one filename (a str) on one side and a sequence on
\* the other raises the ValueError that asks for both or none of the inputs to
\* be iterable, and calls neither a discovery nor a lookup: catalog, dates and
\* slots stay as they are.
C24_MixedArgumentsRaise ==
    [][( /\ op' = "get_file_array"
         /\ arg.start.kind # arg.stop.kind )
       => /\ outcome' = "ValueError: Either both or none of the inputs need to be iterable"
          /\ ncalls' = 0
          /\ UNCHANGED <<files, start_date, stop_date, disk, current_file_list,
                         previous_file_list>>]_vars

\* C25: constructing Files while the system-wide data directory is not set
\* raises RuntimeError; no stored catalog has been loaded, no discovery run and
\* no persisted slot written.
C25_NoDataDirRaises ==
    [][(op' \in {"construct", "construct_update"} /\ arg.data_dir = <<>>)
       => /\ outcome' = "RuntimeError"
          /\ ~alive'
          /\ files' = <<>>
          /\ ncalls' = 0
          /\ UNCHANGED <<disk, persisted, current_file_list,
                         previous_file_list>>]_vars

\* the constructor has raised RuntimeError with a stored catalog in ~/.pysat
\* and files in the data directory
C25_Witness ==
    /\ op = "construct_update" /\ outcome = "RuntimeError"
    /\ arg.data_dir = <<>> /\ arg.platform # <<>>
    /\ disk = LeftOnDisk
    /\ \A f \in RelNames : fsize[f] = "data"

\* the text p without the separators at its end
RECURSIVE WithoutTrailingSeps(_)
WithoutTrailingSeps(p) ==
    IF p # <<>> /\ p[Len(p)] = Sep
    THEN WithoutTrailingSeps(SubSeq(p, 1, Len(p) - 1))
    ELSE p

\* C26: after the construction of Files for an instrument (one with a
\* platform) data_path is the data root joined with directory_format filled
\* with platform, name, tag and inst_id, followed by exactly one directory
\* separator; every component of the filled format is kept, a last component
\* of one character (tag 'A') too.
C26_DataPathKeepsComponents ==
    (op \in {"construct", "construct_update"} /\ alive /\ arg.platform # <<>>) =>
        result = WithoutTrailingSeps(
                     OsPathJoin(arg.data_dir,
                                FormatWith(arg.directory_format, arg)))
                 \o <<Sep>>

\* the file of ~/.pysat is not there, or holds no byte
NoStoredCatalog(f) == ~f.exists \/ Len(f.rows) = 0

LostUpdate == Len(ReadCsv(disk.primary.rows)) < Len(twin.best)

\* the files of the data directory that process p has not in its catalog
NewTo(p) ==
    { f \in RelNames : fsize[f] = "data" } \ ValuesOf(Proc(p).files)

FailsUnchanged ==
    /\ outcome' # "returned"
    /\ UNCHANGED <<files, start_date, stop_date, disk, current_file_list,
                   previous_file_list>>

\* __repr__ after the instrument is gone returns the text with the fallback
ReprFallsBack ==
    (op' = "__repr__" /\ ~ContextAlive) =>
        /\ outcome' = "returned"
        /\ result' = <<"Instrument(weakly referenced)", Len(files)>>

\* C29 as stated: after the instrument is destroyed __repr__ returns a text
\* with the fallback for the instrument, and refresh, get_new and attach fail
\* with an error and leave catalog, dates and persisted slots unchanged.
C29_OrphanOperationsFail ==
    [][ /\ ReprFallsBack
        /\ (op' \in {"refresh", "get_new", "_attach_files"} /\ ~ContextAlive)
              => FailsUnchanged ]_vars

\* C29 amended: attach fails so when the mapping it is given is not empty; of
\* an empty mapping it succeeds and leaves an empty catalog without dates.
C29_OrphanOperationsFailButEmptyAttach ==
    [][ /\ ReprFallsBack
        /\ (op' \in {"refresh", "get_new"} /\ ~ContextAlive) => FailsUnchanged
        /\ (op' = "_attach_files" /\ ~ContextAlive) =>
              IF arg'.info # <<>> THEN FailsUnchanged
              ELSE /\ outcome' = "returned"
                   /\ files' = <<>>
                   /\ start_date' = NoDate /\ stop_date' = NoDate
                   /\ UNCHANGED <<disk, current_file_list,
                                  previous_file_list>> ]_vars

\* attach of a mapping that is not empty has raised ReferenceError on an
\* instance that holds a catalog, its instrument destroyed
C29_Witness ==
    /\ ~ContextAlive
    /\ op = "_attach_files" /\ arg.info # <<>>
    /\ outcome = "ReferenceError"
    /\ files # <<>> /\ arg.info # files

\* C30: from_os with data_path None raises ValueError before any search of the
\* filesystem and any parsing; and whatever its inputs, from_os leaves the
\* catalog, the start and stop dates and the persisted slots of a Files
\* instance as they are.
C30_FromOsNeedsDataPath ==
    [][op' = "Files.from_os" =>
          /\ UNCHANGED <<files, start_date, stop_date, disk, current_file_list,
                         previous_file_list>>
          /\ arg.data_path = "None" =>
                (outcome' = "ValueError" /\ ncalls' = 0 /\ result' = <<>>)]_vars

\* from_os has raised ValueError for a directory that holds files, beside an
\* instance with a catalog
C30_Witness ==
    /\ op = "Files.from_os" /\ outcome = "ValueError"
    /\ arg.data_path = "None" /\ arg.fnames # <<>>
    /\ files # <<>>

\* C31: an instance constructed with write_to_disk False and update_files True
\* pays no regard to a catalog stored in ~/.pysat, calls the discovery
\* callback once during construction, and ends construction holding what the
\* callback found, so a catalog that is not empty whenever the callback
\* returns files.
C31_MemoryConstructionDiscovers ==
    (op = "construct_update" /\ ~write_to_disk) =>
        /\ outcome = "returned" /\ alive
        /\ ncalls = 1
        /\ files = Discovered
        /\ ListFilesRtn(fsize) # <<>> => files # <<>>

\* the catalog _attach_files holds at line 361, before _filter_empty_files:
\* the mapping without its dropped duplicates, in datetime order
Unfiltered ==
    AttachFiles([Self EXCEPT !.ignore_empty_files = FALSE], arg.info,
                multi_file_day, fsize).files

\* C32: with ignore_empty_files True, after a call of _attach_files no entry
\* of the catalog names a file that is missing from the data directory or has
\* size 0, and every entry of the sorted mapping whose file is there with a
\* size above 0 is in the catalog, in the order the sorted mapping had them.
C32_AttachKeepsExactlyDataFiles ==
    (op = "_attach_files" /\ ignore_empty_files) =>
        LET sorted == Unfiltered
            kept == { i \in DOMAIN sorted : fsize[sorted[i][2]] = "data" }
        IN  /\ \A i \in DOMAIN files : fsize[files[i][2]] = "data"
            /\ Len(files) = Cardinality(kept)
            /\ \A i \in kept :
                  files[Cardinality({ j \in kept : j <= i })] = sorted[i]

\* _attach_files was handed three files out of datetime order; the one in the
\* middle of the sorted mapping has size 0 and is gone from the catalog, the
\* two around it are kept
C32_Witness ==
    /\ op = "_attach_files" /\ ignore_empty_files
    /\ Len(Unfiltered) = 3 /\ arg.info # Unfiltered
    /\ fsize[Unfiltered[2][2]] = "empty"
    /\ files = <<Unfiltered[1], Unfiltered[3]>>

\* C33: with and without write_to_disk, a refresh() changes the previous slot
\* only when it also changes the primary slot, and a refresh() that changes
\* the primary slot leaves in the previous slot the catalog the primary slot
\* held before, so that after any run of refresh() calls the previous slot
\* holds what the primary slot held before its latest change.
C33_PreviousFollowsPrimary ==
    [][op' = "refresh" =>
          /\ PreviousSlot' # PreviousSlot => PrimarySlot' # PrimarySlot
          /\ PrimarySlot' # PrimarySlot => PreviousSlot' = PrimarySlot]_vars

\* an instance without write_to_disk has refreshed over a data directory
\* found empty, and the catalog of one file it had stored is now in the
\* previous slot
C33_Witness ==
    /\ op = "refresh" /\ outcome = "returned" /\ ~write_to_disk
    /\ PrimarySlot = <<>> /\ Len(PreviousSlot) = 1
    /\ files = <<>>

\* the arguments name one interval: two filenames, or two lists of one
\* filename each; SoleName is that filename
OneInterval(x) == x.kind = "str" \/ (x.kind = "list" /\ Len(x.items) = 1)
SoleName(x) == IF x.kind = "str" THEN x.name ELSE x.items[1]

\* C34: when get_file_array(start, stop) finds start in the catalog but not
\* stop, so that resolving stop calls refresh(), and the refresh has a
\* different catalog to attach (one that holds both files), the call returns
\* the range of the refreshed catalog: a list whose first filename is start
\* and whose last filename is stop.
C34_RangeOfRefreshedCatalog ==
    [][( /\ op' = "get_file_array"
         /\ OneInterval(arg.start) /\ OneInterval(arg.stop)
         /\ WhereName(files, SoleName(arg.start)) # {}
         /\ WhereName(files, SoleName(arg.stop)) = {}
         /\ Discovered # files
         /\ WhereName(Discovered, SoleName(arg.start)) # {}
         /\ WhereName(Discovered, SoleName(arg.stop)) # {} )
       => ( /\ outcome' = "returned"
            /\ result' # <<>>
            /\ result'[1] = SoleName(arg.start)
            /\ result'[Len(result')] = SoleName(arg.stop) )]_vars

\* C35: the stop of a datetime slice is excluded also when the start is left
\* out: files[:stop] returns, and returns no entry with datetime >= stop.
C35_OpenSliceExcludesStop ==
    (op = "__getitem__" /\ arg.kind = "date_to") =>
        /\ outcome = "returned"
        /\ \A i \in DOMAIN result : result[i][1] < arg.stop

\* both instances have named their slots
BothNamed == twin.slots[1] # NoSlotFiles /\ twin.slots[2] # NoSlotFiles

\* the files of ~/.pysat an instance reads and writes
FilesOfSlots(s) == {s.primary, s.previous}

HasUnderscore(id) ==
    \E t \in {id.platform, id.name, id.tag, id.inst_id} :
        \E k \in DOMAIN t : t[k] = "_"

\* C36 as stated: two instruments that differ in platform, name, tag or
\* inst_id have different stored_file_name values, and neither instance reads
\* or writes a slot file of the other.
C36_DifferentInstrumentsDifferentFiles ==
    (BothNamed /\ arg.ids[1] # arg.ids[2]) =>
        /\ twin.slots[1].primary # twin.slots[2].primary
        /\ FilesOfSlots(twin.slots[1]) \cap FilesOfSlots(twin.slots[2]) = {}

\* C36 amended: the same, for two instruments none of whose four fields
\* contains the character '_'.
C36_FieldsWithoutUnderscoreDifferentFiles ==
    ( /\ BothNamed /\ arg.ids[1] # arg.ids[2]
      /\ ~HasUnderscore(arg.ids[1]) /\ ~HasUnderscore(arg.ids[2]) ) =>
        /\ twin.slots[1].primary # twin.slots[2].primary
        /\ FilesOfSlots(twin.slots[1]) \cap FilesOfSlots(twin.slots[2]) = {}

\* two instruments of the same platform and name, one with a tag and one with
\* an inst_id instead, have named different files
C36_Witness ==
    /\ BothNamed
    /\ ~HasUnderscore(arg.ids[1]) /\ ~HasUnderscore(arg.ids[2])
    /\ arg.ids[1].platform # <<>> /\ arg.ids[1].name # <<>>
    /\ arg.ids[1].tag # <<>> /\ arg.ids[1].inst_id = <<>>
    /\ arg.ids[2] = [arg.ids[1] EXCEPT !.tag = <<>>, !.inst_id = arg.ids[1].tag]
    /\ twin.slots[1].primary # twin.slots[2].primary

\* C37: constructing Files for an instrument whose platform is '' loads no
\* stored catalog, calls no discovery and writes to neither slot; the catalog
\* is empty and start_date and stop_date are undefined.
C37_NoPlatformNoCatalog ==
    [][(op' \in {"construct", "construct_update"} /\ arg.platform = <<>>) =>
          /\ ncalls' = 0
          /\ disk' = disk
          /\ files' = <<>>
          /\ start_date' = NoDate /\ stop_date' = NoDate
          /\ current_file_list' = <<>> /\ previous_file_list' = <<>>]_vars

\* an instance for an instrument without platform was constructed with
\* update_files and write_to_disk, over a data directory that holds files and
\* a ~/.pysat that holds a stored catalog, and its catalog is empty
C37_Witness ==
    /\ op = "construct_update" /\ alive /\ write_to_disk
    /\ arg.platform = <<>>
    /\ disk = LeftOnDisk
    /\ ListFilesRtn(fsize) # <<>>
    /\ files = <<>> /\ start_date = NoDate /\ ncalls = 0

\* the calendar day of an index entry
DayOf(d) == <<d.year, d.month, d.day>>

\* data_path is '' or ends with the separator
EndsWithSep(p) == p = <<>> \/ p[Len(p)] = Sep

\* C38 as stated: for every date of the index list_files produces,
\* generate_times of the file name at that date reconstructs the calendar day
\* of the date, whatever data_path is ('-' in it included) and with
\* mangle_file_dates or without.
C38_FileNameRoundTrip ==
    op = "generate_times" =>
        (outcome = "returned" /\ result[3] = DayOf(result[1]))

\* C38 amended: the same, for a data_path that is '' or ends with the path
\* separator.
C38_FileNameRoundTripUnderDirectory ==
    (op = "generate_times" /\ EndsWithSep(arg.data_path)) =>
        (outcome = "returned" /\ result[3] = DayOf(result[1]))

\* the last day of a year at 23:57, shifted by mangle_file_dates into the next
\* year, under a data path with '-' in two directories: generate_times has
\* reconstructed the first day of the next year
C38_Witness ==
    /\ op = "generate_times" /\ outcome = "returned"
    /\ arg.mangle_file_dates /\ arg.date.minute = 1437
    /\ arg.date.month = 12 /\ arg.date.day = 31
    /\ Cardinality({ k \in DOMAIN arg.data_path : arg.data_path[k] = "-" }) = 2
    /\ result[3] = <<arg.date.year + 1, 1, 1>>

====
